---- MODULE Spec2Model ----
(***************************************************************************)
(* EMIT L2A RFL retrieval core: retrieve_EMIT_L2A_RFL_granule (the retry   *)
(* orchestrator), validate_NetCDF_file, safe_file_remove and the role      *)
(* classification of a granule's data links.                               *)
(*                                                                         *)
(* Text (paths, URLs, granule ids) is a sequence of one-character strings, *)
(* so that substring tests, basename, splitext and join are computed the   *)
(* way the Python code computes them.                                      *)
(***************************************************************************)
EXTENDS Integers, Sequences, FiniteSets, TLC

(***************************************************************************)
(* Bounds of the model.                                                    *)
(***************************************************************************)
\* max_retries is drawn from 0..MaxRetriesBound
MaxRetriesBound == 4
\* the safe_file_remove calls on one path are counted up to this number
RemoveCallsCap == 2

(***************************************************************************)
(* Text helpers (Python str / posixpath / os.path).                        *)
(***************************************************************************)
\* the elements of a sequence
Range(q) == {q[i] : i \in 1..Len(q)}

\* Python: t in s
Contains(s, t) ==
    \E i \in 0..(Len(s) - Len(t)) : SubSeq(s, i + 1, i + Len(t)) = t

\* Python: s.startswith(t)
StartsWith(s, t) ==
    /\ Len(t) <= Len(s)
    /\ SubSeq(s, 1, Len(t)) = t

\* Python: s.rfind(c) for a one-character c, 1-based, 0 when absent
RFind(s, c) ==
    IF \E i \in 1..Len(s) : s[i] = c
    THEN CHOOSE i \in 1..Len(s) : s[i] = c /\ \A j \in (i + 1)..Len(s) : s[j] # c
    ELSE 0

\* posixpath.basename(p): what follows the last "/"
Basename(p) == SubSeq(p, RFind(p, "/") + 1, Len(p))

\* posixpath.splitext(p)[0]: the text before the last "." of the last
\* component, unless that component has only leading dots before it
SplitextRoot(p) ==
    LET sepIndex == RFind(p, "/")
        dotIndex == RFind(p, ".")
    IN  IF /\ dotIndex > sepIndex
           /\ \E k \in (sepIndex + 1)..(dotIndex - 1) : p[k] # "."
        THEN SubSeq(p, 1, dotIndex - 1)
        ELSE p

\* os.path.join(a, b) for two components
Join(a, b) ==
    IF StartsWith(b, <<"/">>) THEN b
    ELSE IF a = <<>> \/ a[Len(a)] = "/" THEN a \o b
    ELSE a \o <<"/">> \o b

\* the process environment read by expanduser and abspath
HomeDirectory == <<"/", "u">>
WorkingDirectory == <<"/", "w">>

\* os.path.expanduser(p), for "~" and "~/..." (no "~user" form is drawn)
Expanduser(p) ==
    IF StartsWith(p, <<"~">>) /\ (Len(p) = 1 \/ p[2] = "/")
    THEN HomeDirectory \o SubSeq(p, 2, Len(p))
    ELSE p

\* os.path.abspath(p) for paths with no ".", ".." or empty components:
\* a relative path is joined to the working directory and a trailing
\* slash is dropped
Abspath(p) ==
    LET q == IF StartsWith(p, <<"/">>) THEN p ELSE Join(WorkingDirectory, p)
    IN  IF Len(q) > 1 /\ q[Len(q)] = "/" THEN SubSeq(q, 1, Len(q) - 1) ELSE q

(***************************************************************************)
(* Literals of retrieve_EMIT_L2A_RFL_granule.                              *)
(***************************************************************************)
\* "EMIT_L2A_RFL_001_"
ProductPrefix ==
    <<"E","M","I","T","_","L","2","A","_","R","F","L","_","0","0","1","_">>

\* '_RFL_', '_MASK_', '_RFLUNCERT_'
TokenRFL == <<"_","R","F","L","_">>
TokenMASK == <<"_","M","A","S","K","_">>
TokenRFLUNCERT == <<"_","R","F","L","U","N","C","E","R","T","_">>

\* a path that was not found: None
NoFile == <<>>

(***************************************************************************)
(* The inputs drawn by the model: remote file names, descriptors           *)
(* (the ordered data links of a granule) and download directories.         *)
(***************************************************************************)
NameRFL == ProductPrefix \o <<"s", ".", "n", "c">>
NameMASK ==
    <<"E","M","I","T","_","L","2","A">> \o TokenMASK
        \o <<"0","0","1","_","s",".","n","c">>
NameRFLUNCERT ==
    <<"E","M","I","T","_","L","2","A">> \o TokenRFLUNCERT
        \o <<"0","0","1","_","s",".","n","c">>
\* a reflectance file whose scene text carries the mask token
NameRFLm == ProductPrefix \o <<"s">> \o TokenMASK \o <<"t", ".", "n", "c">>

URL(name) == <<"h", "/", "p", "/">> \o name

Descriptors ==
    << <<URL(NameRFL), URL(NameMASK), URL(NameRFLUNCERT)>>,
       <<URL(NameRFL), URL(NameRFLUNCERT), URL(NameMASK)>>,
       <<URL(NameMASK), URL(NameRFL), URL(NameRFLUNCERT)>>,
       <<URL(NameMASK), URL(NameRFLUNCERT), URL(NameRFL)>>,
       <<URL(NameRFLUNCERT), URL(NameRFL), URL(NameMASK)>>,
       <<URL(NameRFLUNCERT), URL(NameMASK), URL(NameRFL)>>,
       <<URL(NameRFLm), URL(NameMASK), URL(NameRFLUNCERT)>>,
       <<URL(NameRFL), URL(NameRFLUNCERT)>>,
       <<URL(NameRFL), URL(NameMASK)>>,
       << >> >>

\* "/d", "c" (relative), "~/x_MASK_y", "/r_RFLUNCERT_"
Directories ==
    << <<"/", "d">>,
       <<"c">>,
       <<"~", "/", "x">> \o TokenMASK \o <<"y">>,
       <<"/", "r">> \o TokenRFLUNCERT >>

\* remote_granule.data_links() of descriptor number g
DataLinks(g) == Descriptors[g]

(***************************************************************************)
(* Lines 58-79 and 97-101: granule id, local paths, role classification.   *)
(***************************************************************************)
\* line 59 (defined when the descriptor has at least one data link)
GranuleID(g) == SplitextRoot(Basename(DataLinks(g)[1]))

\* lines 66-67
AbsDirectory(g, d) == Abspath(Expanduser(Join(Directories[d], GranuleID(g))))

\* lines 70-71
LocalFiles(g, d) ==
    [i \in 1..Len(DataLinks(g)) |->
        Join(AbsDirectory(g, d), Basename(DataLinks(g)[i]))]

\* next((f for f in files if <condition>), None), wanted being the files
\* that satisfy the condition
FirstWhere(files, wanted) ==
    IF \E i \in 1..Len(files) : files[i] \in wanted
    THEN files[CHOOSE i \in 1..Len(files) :
                 /\ files[i] \in wanted
                 /\ \A j \in 1..(i - 1) : files[j] \notin wanted]
    ELSE NoFile

IsReflectanceName(f) == Contains(f, TokenRFL) /\ ~Contains(f, TokenRFLUNCERT)
IsMaskName(f) == Contains(f, TokenMASK)
IsUncertaintyName(f) == Contains(f, TokenRFLUNCERT)

\* _identify_files, lines 74-79
IdentifyFiles(files) ==
    [reflectance |-> FirstWhere(files, {f \in Range(files) : IsReflectanceName(f)}),
     mask        |-> FirstWhere(files, {f \in Range(files) : IsMaskName(f)}),
     uncertainty |-> FirstWhere(files, {f \in Range(files) : IsUncertaintyName(f)})]

(***************************************************************************)
(* validate_NetCDF_file (validate_NetCDF_file.py, lines 16-137).           *)
(*                                                                         *)
(* A local file is a record: whether the path exists, its size (0, or 1    *)
(* for any positive size), what netCDF4.Dataset(path, "r") does with it    *)
(* (opens, or raises an exception of some class whose text is of some      *)
(* kind), and, for a file that opens, its number of dimensions, its number *)
(* of variables and the variables whose shape cannot be read.              *)
(***************************************************************************)
\* variables a drawn container holds at most
MaxVariables == 4

OpenResults == {"ok", "OSError", "RuntimeError", "Exception"}
\* the text of the exception raised by the open: nothing matched by the
\* handler, "errno -101", "hdf error", "permission"
MessageKinds == {"plain", "errno -101", "hdf error", "permission"}

MissingFile ==
    [exists |-> FALSE, size |-> 0, open |-> "OSError", message |-> "plain",
     dimensions |-> 0, variables |-> 0, unreadable |-> {}]

Files ==
    {MissingFile}
    \cup [exists : {TRUE}, size : {0}, open : {"OSError", "RuntimeError"},
          message : {"plain"}, dimensions : {0}, variables : {0},
          unreadable : {{}}]
    \cup [exists : {TRUE}, size : {1}, open : OpenResults \ {"ok"},
          message : MessageKinds, dimensions : {0}, variables : {0},
          unreadable : {{}}]
    \cup {f \in [exists : {TRUE}, size : {1}, open : {"ok"},
                 message : {"plain"}, dimensions : 0..1,
                 variables : 0..MaxVariables,
                 unreadable : SUBSET (1..MaxVariables)] :
            f.unreadable \subseteq 1..f.variables}

ValidationOutcomes ==
    {"Valid", "FileNotFound", "EmptyFile", "Corrupted", "ReadError"}

\* the state of one validate_NetCDF_file call before its first statement:
\* file is the file on disk, given the file as it was when the call was
\* made, previous the outcome of the call before this one on the same path
VStart(f, check_integrity) ==
    [pc |-> "exists", file |-> f, check_integrity |-> check_integrity,
     checks |-> <<>>, handle |-> "none", exception |-> "none",
     outcome |-> "none", hint |-> FALSE, given |-> f, previous |-> "none"]

\* lines 63-66: if not exists(filename_absolute): raise NetCDFFileNotFoundError
VCheckExists(v) ==
    IF ~v.file.exists
    THEN [v EXCEPT !.pc = "done", !.checks = Append(@, "exists"),
                   !.outcome = "FileNotFound"]
    ELSE [v EXCEPT !.pc = "size", !.checks = Append(@, "exists")]

\* VCheckSize without the raise: an empty file goes on to the open
VCheckSizeNoRaise(v) ==
    [v EXCEPT !.pc = "open", !.checks = Append(@, "size")]

\* lines 69-73: if file_size == 0: raise NetCDFEmptyFileError
VCheckSize(v) ==
    IF v.file.size = 0
    THEN [v EXCEPT !.pc = "done", !.checks = Append(@, "size"),
                   !.outcome = "EmptyFile"]
    ELSE [v EXCEPT !.pc = "open", !.checks = Append(@, "size")]

\* VOpen with mode "w" instead of "r": the open truncates the file
VOpenForWriting(v) ==
    [v EXCEPT !.pc = "structure", !.checks = Append(@, "open"),
              !.handle = "open",
              !.file = [@ EXCEPT !.open = "ok", !.dimensions = 0,
                                 !.variables = 0, !.unreadable = {}]]

\* line 77: with netCDF4.Dataset(filename_absolute, "r") as ds
VOpen(v) ==
    IF v.file.open = "ok"
    THEN [v EXCEPT !.pc = "structure", !.checks = Append(@, "open"),
                   !.handle = "open"]
    ELSE [v EXCEPT !.pc = "except", !.checks = Append(@, "open"),
                   !.exception = v.file.open]

\* lines 79-87: no dimensions and no variables raises NetCDFCorruptedError
\* inside the with block; leaving the block closes the dataset
VStructure(v) ==
    IF v.file.dimensions = 0 /\ v.file.variables = 0
    THEN [v EXCEPT !.pc = "except", !.checks = Append(@, "structure"),
                   !.handle = "closed", !.exception = "NetCDFCorruptedError"]
    ELSE IF v.check_integrity
    THEN [v EXCEPT !.pc = "integrity", !.checks = Append(@, "structure")]
    ELSE [v EXCEPT !.pc = "done", !.checks = Append(@, "structure"),
                   !.handle = "closed", !.outcome = "Valid"]

\* IntegrityVariables without the [:3] slice: every variable is read
IntegrityVariablesAll(f) == 1..f.variables

\* list(variables.keys())[:3]
IntegrityVariables(f) == {k \in 1..f.variables : k <= 3}

\* lines 90-100: the shape of the first 3 variables is read; a failure
\* raises NetCDFCorruptedError inside the with block
VIntegrity(v) ==
    IF IntegrityVariables(v.file) \cap v.file.unreadable # {}
    THEN [v EXCEPT !.pc = "except", !.checks = Append(@, "integrity"),
                   !.handle = "closed", !.exception = "NetCDFCorruptedError"]
    ELSE [v EXCEPT !.pc = "done", !.checks = Append(@, "integrity"),
                   !.handle = "closed", !.outcome = "Valid"]

\* VExcept with the pattern deciding the kind: an OSError whose text
\* matches 'errno -101' or 'hdf error' is raised as NetCDFCorruptedError
VExceptByPattern(v) ==
    IF v.exception = "OSError"
    THEN [v EXCEPT !.pc = "done",
                   !.outcome = IF v.file.message \in {"errno -101", "hdf error"}
                               THEN "Corrupted" ELSE "ReadError",
                   !.hint = v.file.message \in {"errno -101", "hdf error"}]
    ELSE [v EXCEPT !.pc = "done", !.outcome = "Corrupted"]

\* lines 102-137: the except clauses, by the class of the exception.
\* NetCDFCorruptedError is neither an OSError nor a RuntimeError
\* (exceptions.py, lines 6-23), so the last clause catches it.
VExcept(v) ==
    IF v.exception = "OSError"
    THEN [v EXCEPT !.pc = "done", !.outcome = "ReadError",
                   !.hint = v.file.message \in {"errno -101", "hdf error"}]
    ELSE IF v.exception = "RuntimeError"
    THEN [v EXCEPT !.pc = "done", !.outcome = "Corrupted"]
    ELSE [v EXCEPT !.pc = "done", !.outcome = "Corrupted"]

\* one statement of the call
VStep(v) ==
    CASE v.pc = "exists"    -> VCheckExists(v)
      [] v.pc = "size"      -> VCheckSize(v)
      [] v.pc = "open"      -> VOpen(v)
      [] v.pc = "structure" -> VStructure(v)
      [] v.pc = "integrity" -> VIntegrity(v)
      [] v.pc = "except"    -> VExcept(v)
      [] OTHER              -> v

RECURSIVE VRun(_)
VRun(v) == IF v.pc = "done" THEN v ELSE VRun(VStep(v))

\* validate_NetCDF_file(filename, file_type, check_integrity) run to its end
Validate(f, check_integrity) == VRun(VStart(f, check_integrity))

(***************************************************************************)
(* safe_file_remove (file_utils.py, lines 106-144).                        *)
(*                                                                         *)
(* Each unlink attempt has one of three outcomes on a network filesystem:  *)
(* "removed" (the unlink succeeds and the path is seen to be gone),        *)
(* "error" (the unlink raises and the file stays), "stale" (the unlink     *)
(* succeeds but filepath.exists() still reports the path).  Once the file  *)
(* is gone a further unlink raises FileNotFoundError.                      *)
(***************************************************************************)
UnlinkOutcomes == {"removed", "error", "stale"}

RECURSIVE RemoveAttempts(_, _, _, _, _)
RemoveAttempts(attempt, max_attempts, present, outs, acc) ==
    IF attempt > max_attempts
    THEN [acc EXCEPT !.result = FALSE, !.present = present]
    ELSE IF ~present
    THEN \* unlink raises FileNotFoundError: lines 138-141
         RemoveAttempts(attempt + 1, max_attempts, FALSE, outs,
             [acc EXCEPT !.unlinks = @ + 1,
                         !.sleeps = @ + (IF attempt < max_attempts THEN 1 ELSE 0)])
    ELSE IF outs[attempt] = "removed"
    THEN \* lines 131-136
         [acc EXCEPT !.result = TRUE, !.present = FALSE,
                     !.unlinks = @ + 1, !.sleeps = @ + 1]
    ELSE IF outs[attempt] = "stale"
    THEN \* lines 131-134, the path is still reported
         RemoveAttempts(attempt + 1, max_attempts, FALSE, outs,
             [acc EXCEPT !.unlinks = @ + 1, !.sleeps = @ + 1])
    ELSE \* lines 138-141
         RemoveAttempts(attempt + 1, max_attempts, TRUE, outs,
             [acc EXCEPT !.unlinks = @ + 1,
                         !.sleeps = @ + (IF attempt < max_attempts THEN 1 ELSE 0)])

\* SafeFileRemove without the early return of lines 126-127
SafeFileRemoveNoEarlyReturn(present, max_attempts, outs) ==
    RemoveAttempts(1, max_attempts, present, outs,
        [result |-> FALSE, present |-> present, unlinks |-> 0, sleeps |-> 0])

\* safe_file_remove(filepath, max_attempts): the value returned, whether the
\* file is still there, and the unlink calls and sleeps made
SafeFileRemove(present, max_attempts, outs) ==
    IF ~present
    THEN [result |-> TRUE, present |-> FALSE, unlinks |-> 0, sleeps |-> 0]
    ELSE RemoveAttempts(1, max_attempts, TRUE, outs,
             [result |-> FALSE, present |-> TRUE, unlinks |-> 0, sleeps |-> 0])

\* max_attempts=3 at both call sites of the retriever (lines 122 and 179)
RemoveMaxAttempts == 3

\* what a safe_file_remove call of the retriever can come to, over every
\* sequence of unlink outcomes: the value returned and whether the file stays
RemoveResults ==
    {[result |-> r.result, present |-> r.present] :
        r \in {SafeFileRemove(TRUE, RemoveMaxAttempts, outs) :
                 outs \in [1..RemoveMaxAttempts -> UnlinkOutcomes]}}

\* max_attempts is drawn from 0..MaxAttempts
MaxAttempts == 3

\* the state of one safe_file_remove call before its first statement
UStart(present, max_attempts, outs) ==
    [pc |-> "call", given |-> present, max_attempts |-> max_attempts,
     outs |-> outs, result |-> FALSE, present |-> present,
     unlinks |-> 0, sleeps |-> 0]

\* the call run to its return
UReturn(u) ==
    LET r == SafeFileRemove(u.given, u.max_attempts, u.outs)
    IN  [u EXCEPT !.pc = "done", !.result = r.result, !.present = r.present,
                  !.unlinks = r.unlinks, !.sleeps = r.sleeps]

(***************************************************************************)
(* wait_for_file_stability (file_utils.py, lines 45-103).                  *)
(*                                                                         *)
(* The file is what the call can read of it: whether the path exists at    *)
(* the call, and what each filepath.stat() gives in turn, one of two sizes *)
(* or an exception.                                                        *)
(***************************************************************************)
\* max_checks is drawn from 0..MaxChecks
MaxChecks == 4

\* line 89: if stable_count >= 2
StableChecks == 2

StatResults == {"size a", "size b", "raises"}

\* the state of one wait_for_file_stability call before its first
\* statement; taken counts the stat() samples, sleeps the time.sleep calls
WStart(exists, max_checks, check_size, stats) ==
    [pc |-> "exists", exists |-> exists, max_checks |-> max_checks,
     check_size |-> check_size, stats |-> stats,
     i |-> 0, previous_size |-> "none", stable_count |-> 0,
     taken |-> 0, sleeps |-> 0, result |-> "none"]

\* lines 75-80
WCheckExists(w) ==
    IF ~w.exists
    THEN [w EXCEPT !.pc = "done", !.result = "false"]
    ELSE [w EXCEPT !.pc = "loop"]

\* WIterate that declares stability at the first unchanged reading
WIterateOneStableCheck(w) ==
    IF w.i >= w.max_checks
    THEN [w EXCEPT !.pc = "done", !.result = "false"]
    ELSE LET current_size == w.stats[w.i + 1]
             compared == w.check_size /\ w.previous_size # "none"
             stable == IF compared
                       THEN IF current_size = w.previous_size
                            THEN w.stable_count + 1 ELSE 0
                       ELSE w.stable_count
         IN  IF current_size = "raises"
             THEN [w EXCEPT !.pc = "done", !.result = "false",
                            !.taken = @ + 1]
             ELSE IF compared /\ current_size = w.previous_size /\ stable >= 1
             THEN [w EXCEPT !.pc = "done", !.result = "true",
                            !.taken = @ + 1, !.stable_count = stable]
             ELSE [w EXCEPT !.i = @ + 1, !.taken = @ + 1,
                            !.stable_count = stable,
                            !.previous_size = current_size,
                            !.sleeps = @ + 1]

\* lines 82-103: one iteration of for i in range(max_checks), or the end
\* of the loop
WIterate(w) ==
    IF w.i >= w.max_checks
    THEN [w EXCEPT !.pc = "done", !.result = "false"]
    ELSE LET current_size == w.stats[w.i + 1]
             compared == w.check_size /\ w.previous_size # "none"
             stable == IF compared
                       THEN IF current_size = w.previous_size
                            THEN w.stable_count + 1 ELSE 0
                       ELSE w.stable_count
         IN  IF current_size = "raises"
             THEN [w EXCEPT !.pc = "done", !.result = "false",
                            !.taken = @ + 1]
             ELSE IF compared /\ current_size = w.previous_size
                     /\ stable >= StableChecks
             THEN [w EXCEPT !.pc = "done", !.result = "true",
                            !.taken = @ + 1, !.stable_count = stable]
             ELSE [w EXCEPT !.i = @ + 1, !.taken = @ + 1,
                            !.stable_count = stable,
                            !.previous_size = current_size,
                            !.sleeps = @ + 1]

(***************************************************************************)
(* retrieve_EMIT_L2A_RFL_granule (retrieve_EMIT_L2A_RFL_granule.py).       *)
(***************************************************************************)
\* the contents a cached or downloaded file is drawn from
CorruptFile ==
    [exists |-> TRUE, size |-> 1, open |-> "RuntimeError", message |-> "plain",
     dimensions |-> 0, variables |-> 0, unreadable |-> {}]
GoodFile ==
    [exists |-> TRUE, size |-> 1, open |-> "ok", message |-> "plain",
     dimensions |-> 1, variables |-> 1, unreadable |-> {}]
CachedFiles == {MissingFile, CorruptFile, GoodFile}

\* a zero-byte file, and a file whose open raises OSError
EmptyFile ==
    [exists |-> TRUE, size |-> 0, open |-> "OSError", message |-> "plain",
     dimensions |-> 0, variables |-> 0, unreadable |-> {}]
UnreadableFile ==
    [exists |-> TRUE, size |-> 1, open |-> "OSError", message |-> "plain",
     dimensions |-> 0, variables |-> 0, unreadable |-> {}]

\* a file of every validation outcome
AnyFiles == CachedFiles \cup {EmptyFile, UnreadableFile}

\* a path of local_files is held as its position in local_files
\* (0 for None); the drawn descriptors have pairwise distinct file names
PathIndex(files, f) ==
    IF f = NoFile THEN 0 ELSE CHOOSE i \in 1..Len(files) : files[i] = f

\* the positions of local_files any descriptor fills
LinkSlots == 1..3

\* the except clause without NetCDFFileNotFoundError, as if that class
\* derived from FileNotFoundError alone
IsNetCDFValidationErrorButNotFound(outcome) ==
    outcome \in {"EmptyFile", "Corrupted", "ReadError"}

\* except NetCDFValidationError (lines 117 and 174) catches the four
\* classes derived from it (exceptions.py, lines 6-28)
IsNetCDFValidationError(outcome) ==
    outcome \in {"FileNotFound", "EmptyFile", "Corrupted", "ReadError"}

\* ValidateOne without the removal of lines 120-125 and 177-179
ValidateOneKeepsFile(st, path, removal) ==
    LET outcome == Validate(st.fs[path], FALSE).outcome
    IN  IF outcome = "Valid"
        THEN [st EXCEPT !.validate_calls = @ \cup {path},
                        !.outcomes = Append(@, TRUE)]
        ELSE [st EXCEPT !.validate_calls = @ \cup {path},
                        !.outcomes = Append(@, FALSE),
                        !.files_to_download = Append(@, path)]

\* ValidateOne that puts a failed file in the retry set only once the file
\* is gone
ValidateOneQueuesRemovedOnly(st, path, removal) ==
    LET outcome == Validate(st.fs[path], FALSE).outcome
        removed == st.fs[path].exists
        stays == removed /\ removal.present
    IN  IF outcome = "Valid"
        THEN [st EXCEPT !.validate_calls = @ \cup {path},
                        !.outcomes = Append(@, TRUE)]
        ELSE [st EXCEPT
                !.validate_calls = @ \cup {path},
                !.outcomes = Append(@, FALSE),
                !.fs[path] = IF removed /\ ~removal.present
                             THEN MissingFile ELSE @,
                !.remove_calls[path] =
                    IF removed /\ @ < RemoveCallsCap THEN @ + 1 ELSE @,
                !.files_to_download = IF stays THEN @ ELSE Append(@, path)]

\* lines 113-126 and 170-180, one iteration: validate the file; on a
\* validation error remove it if it exists and append it to
\* files_to_download; an exception the except clause does not catch ends
\* the pass (escaped)
ValidateOne(st, path, removal) ==
    LET outcome == Validate(st.fs[path], FALSE).outcome
        removed == st.fs[path].exists
    IN  IF st.escaped # "none"
        THEN st
        ELSE IF outcome = "Valid"
        THEN [st EXCEPT !.validate_calls = @ \cup {path},
                        !.outcomes = Append(@, TRUE)]
        ELSE IF ~IsNetCDFValidationError(outcome)
        THEN [st EXCEPT !.validate_calls = @ \cup {path},
                        !.escaped = outcome]
        ELSE [st EXCEPT
                !.validate_calls = @ \cup {path},
                !.outcomes = Append(@, FALSE),
                !.fs[path] = IF removed /\ ~removal.present
                             THEN MissingFile ELSE @,
                !.remove_calls[path] =
                    IF removed /\ @ < RemoveCallsCap THEN @ + 1 ELSE @,
                !.files_to_download = Append(@, path)]

\* ValidationPass that purges the whole granule once a file fails: every
\* role's file is removed and queued again
ValidationPassPurging(files, paths, removals, vcalls, rcalls) ==
    LET st0 == [fs |-> files, files_to_download |-> <<>>,
                validate_calls |-> vcalls, remove_calls |-> rcalls,
                outcomes |-> <<>>, escaped |-> "none"]
        st3 == ValidateOne(ValidateOne(ValidateOne(st0, paths[1], removals[1]),
                                       paths[2], removals[2]),
                           paths[3], removals[3])
    IN  IF st3.files_to_download = <<>>
        THEN st3
        ELSE [st3 EXCEPT
                !.fs = [i \in LinkSlots |->
                          IF i \in Range(paths) THEN MissingFile ELSE @[i]],
                !.remove_calls = [i \in LinkSlots |->
                          IF i \in Range(paths) /\ files[i].exists
                             /\ rcalls[i] < RemoveCallsCap
                          THEN rcalls[i] + 1 ELSE @[i]],
                !.files_to_download = paths]

\* for filepath, file_type in file_info.values(): the three roles in the
\* order of file_info (lines 105-109)
ValidationPass(files, paths, removals, vcalls, rcalls) ==
    LET st0 == [fs |-> files, files_to_download |-> <<>>,
                validate_calls |-> vcalls, remove_calls |-> rcalls,
                outcomes |-> <<>>, escaped |-> "none"]
        st1 == ValidateOne(st0, paths[1], removals[1])
        st2 == ValidateOne(st1, paths[2], removals[2])
    IN  ValidateOne(st2, paths[3], removals[3])

\* the outcomes of the safe_file_remove calls of one pass, one per role: a
\* role whose file is missing or validates has no removal to draw
NoRemoval == [result |-> TRUE, present |-> FALSE]
RemovalChoices(files, paths) ==
    {rs \in [1..3 -> RemoveResults \cup {NoRemoval}] :
        \A k \in 1..3 :
            IF files[paths[k]].exists
               /\ Validate(files[paths[k]], FALSE).outcome # "Valid"
            THEN rs[k] \in RemoveResults
            ELSE rs[k] = NoRemoval}

\* MissingPaths that queues every path, present or not
MissingPathsAll(files, paths) == paths

\* lines 130-132: the paths that do not exist, in the order of file_info
RECURSIVE MissingPaths(_, _)
MissingPaths(files, paths) ==
    IF paths = <<>> THEN <<>>
    ELSE (IF ~files[Head(paths)].exists THEN <<Head(paths)>> ELSE <<>>)
         \o MissingPaths(files, Tail(paths))

\* Threads that degrades the second invocation only
ThreadsSecondOnly(retry_attempt) == IF retry_attempt = 1 THEN 1 ELSE 8

\* line 89: threads = 1 if retry_attempt > 0 else 8
Threads(retry_attempt) == IF retry_attempt > 0 THEN 1 ELSE 8

\* WaitTime with the exponent off by one: retry_delay * (2 ** retry_count)
WaitTimeLateExponent(delay, count) == delay * (2 ^ count)

\* line 139: wait_time = retry_delay * (2 ** (retry_count - 1))
WaitTime(delay, count) == delay * (2 ^ (count - 1))

\* Transport that fetches every requested link again: a destination that
\* exists is overwritten, here with a file that does not validate
TransportOverwriting(files, requested, new) ==
    [i \in LinkSlots |->
        IF i \notin requested THEN files[i]
        ELSE IF files[i].exists THEN CorruptFile ELSE new[i]]

\* earthaccess.download(urls, local_path=abs_directory): each requested
\* link whose destination is missing may be written with any content (or
\* not at all); a destination that exists is skipped (line 149)
Transport(files, requested, new) ==
    [i \in LinkSlots |->
        IF i \in requested /\ ~files[i].exists THEN new[i] ELSE files[i]]

(***************************************************************************)
(* State.  The arguments and locals of retrieve_EMIT_L2A_RFL_granule keep  *)
(* their names; a descriptor is held as its number in Descriptors (0 for   *)
(* None), a directory as its number in Directories, orbit and scene as 0   *)
(* for None.  fs is the download directory: the file at each path of       *)
(* local_files.  The remaining variables record what the call has done.    *)
(***************************************************************************)
VARIABLES
    pc,                    \* where the call is
    call,                  \* 1 for the first call, 2 for its re-run
    granule_arg,           \* the remote_granule argument as passed
    remote_granule, orbit, scene, download_directory,
    max_retries, retry_delay, skip_validation,
    reflectance_filename, mask_filename, uncertainty_filename,
    files_to_download, retry_count,
    fs,
    search_calls,          \* calls of find_EMIT_L2A_RFL_granule
    validate_calls,        \* the paths validate_NetCDF_file was called on
    remove_calls,          \* calls of safe_file_remove, per path
    stability_calls,       \* paths given to wait_for_file_stability since the download
    stability_results,     \* what wait_for_file_stability returns for each path
    downloads,             \* the earthaccess.download invocations, in order
    sleeps,                \* the backoff sleeps (line 141), in order
    last_pass,             \* whether each role validated in the last validation pass
    last_attempt,          \* how the last download attempt ended
    error,                 \* the exception raised to the caller
    error_message,         \* what the message of the exhaustion error carries
    first_result,          \* the descriptor and the paths of the first call's result
    v,                     \* a validate_NetCDF_file call (SpecValidate)
    w,                     \* a wait_for_file_stability call (SpecStability)
    u,                     \* a safe_file_remove call (SpecRemove)
    im,                    \* an import of the package (SpecImport)
    ts,                    \* a generate_EMIT_L2A_RFL_timeseries call (SpecTimeseries)
    vc,                    \* a caller of validate_NetCDF_file (SpecCallers)
    cc                     \* two concurrent retriever calls (SpecConcurrent)

vars ==
    <<pc, call, granule_arg, remote_granule, orbit, scene, download_directory,
      max_retries, retry_delay, skip_validation,
      reflectance_filename, mask_filename, uncertainty_filename,
      files_to_download, retry_count, fs,
      search_calls, validate_calls, remove_calls, stability_calls,
      stability_results,
      downloads, sleeps, last_pass, last_attempt, error, error_message,
      first_result, v, w, u, im, ts, vc, cc>>

others == <<im, ts, vc, cc>>

arguments ==
    <<granule_arg, orbit, scene, download_directory,
      max_retries, retry_delay, skip_validation>>
roles == <<reflectance_filename, mask_filename, uncertainty_filename>>
observed ==
    <<search_calls, validate_calls, remove_calls, stability_calls,
      downloads, sleeps, last_pass, last_attempt>>

\* max_retries and retry_delay are drawn from these: every retry budget
\* with the default delay of 2, and a budget of 3 with a delay of 3
RetrySettings ==
    [max_retries : 0..MaxRetriesBound, retry_delay : {2}]
    \cup [max_retries : {3}, retry_delay : {3}]

\* the calls drawn.  The first descriptor with the first directory is
\* drawn with every retry setting; with max_retries=2 and retry_delay=2:
\* the first descriptor with the directory that carries a role token, a
\* descriptor led by the mask file, one with no uncertainty file, one with
\* no data link, and the calls by orbit and scene with no descriptor
CallArguments ==
    {[granule |-> 1, orbit |-> 0, scene |-> 0, directory |-> 1,
      max_retries |-> r.max_retries, retry_delay |-> r.retry_delay] :
        r \in RetrySettings}
    \cup {[granule |-> g, orbit |-> 0, scene |-> 0, directory |-> 1,
           max_retries |-> 2, retry_delay |-> 2] : g \in {3, 9, 10}}
    \cup {[granule |-> 1, orbit |-> 0, scene |-> 0, directory |-> 3,
           max_retries |-> 2, retry_delay |-> 2]}
    \cup {[granule |-> 0, orbit |-> o, scene |-> s, directory |-> 1,
           max_retries |-> 2, retry_delay |-> 2] : o \in 0..1, s \in 0..1}

\* what find_EMIT_L2A_RFL_granule(orbit, scene) resolves to: nothing, or
\* the first descriptor
SearchResults == {0, 1}


(***************************************************************************)
(* Importing the package: src/EMITL2ARFL/__init__.py.  os.environ is a     *)
(* function from the names that are set to their values.                   *)
(***************************************************************************)
LockingVariable == "HDF5_USE_FILE_LOCKING"
EnvironmentNames == {LockingVariable, "HDF5_DISABLE_VERSION_CHECK", "HOME"}
EnvironmentValues == {"", "FALSE", "TRUE", "BEST_EFFORT"}
Environments ==
    UNION {[S -> EnvironmentValues] : S \in SUBSET EnvironmentNames}

\* os.environ[name] = value
SetEnvironment(environ, name, value) ==
    [n \in DOMAIN environ \cup {name} |->
        IF n = name THEN value ELSE environ[n]]

\* SetDefaultLocking testing the value instead of the presence of the name
SetDefaultLockingWhenFalsy(environ) ==
    IF LockingVariable \notin DOMAIN environ
       \/ environ[LockingVariable] \in {"", "TRUE"}
    THEN SetEnvironment(environ, LockingVariable, "FALSE")
    ELSE environ

\* lines 20-21
SetDefaultLocking(environ) ==
    IF LockingVariable \notin DOMAIN environ
    THEN SetEnvironment(environ, LockingVariable, "FALSE")
    ELSE environ

\* the interpreter before the import: os.environ and whether netCDF4 is
\* in sys.modules
MStart(environ, preloaded) ==
    [pc |-> "import", environ |-> environ, initial |-> environ,
     modules |-> IF preloaded THEN {"netCDF4"} ELSE {},
     warnings |-> 0, reloads |-> 0]

\* lines 40-41: the submodules are imported; they load netCDF4 and leave
\* os.environ alone
ImportSubmodules(f) ==
    [f EXCEPT !.modules = @ \cup {"netCDF4", "EMITL2ARFL"}, !.pc = "imported"]

\* lines 14-41: the body of the package module
MImport(f) ==
    LET preloaded == "netCDF4" \in f.modules
    IN  ImportSubmodules(
           [f EXCEPT !.environ = SetDefaultLocking(f.environ),
                     !.warnings = IF preloaded THEN 1 ELSE 0,
                     !.reloads = IF preloaded THEN 1 ELSE 0])

midle == MStart(<<>>, FALSE)

(***************************************************************************)
(* generate_EMIT_L2A_RFL_timeseries and retrieve_EMIT_L2A_RFL.  Dates are  *)
(* numbered from the start date.                                           *)
(***************************************************************************)
MaxDates == 3
Dates == 1..MaxDates

\* retrieve_EMIT_L2A_RFL.py lines 15-20: the parameters of the function
RetrieveParameters ==
    {"date_UTC", "geometry", "download_directory", "max_retries",
     "retry_delay"}

\* generate_EMIT_L2A_RFL_timeseries.py lines 45-52: the keywords of the call
RetrieveKeywords ==
    {"date_UTC", "geometry", "download_directory", "max_retries",
     "retry_delay", "threads"}

\* retrieve_EMIT_L2A_RFL called with the keywords: binding them to the
\* parameters comes first, then the search, then the retrieval of each
\* granule found
RetrieveL2ARFL(keywords, date, available, failing) ==
    IF ~(keywords \subseteq RetrieveParameters) THEN "TypeError"
    ELSE IF date \notin available THEN "EMITNotAvailable"
    ELSE IF date \in failing THEN "FileNotFoundError"
    ELSE "merged_cube"

\* whether the body of retrieve_EMIT_L2A_RFL was entered
BodyEntered(outcome) == outcome # "TypeError"

\* a call over the dates 1..last: the dates whose output file exists, the
\* dates with granules, the dates whose granules cannot be retrieved
GStart(last, existing, available, failing) ==
    [pc |-> "loop", date |-> 1, last |-> last, existing |-> existing,
     initial |-> existing, available |-> available, failing |-> failing,
     filenames |-> <<>>, retrieved |-> {}, error |-> "none"]

\* lines 38-41: the output file of the date exists
GExisting(f) ==
    [f EXCEPT !.filenames = Append(@, f.date), !.date = @ + 1]

\* lines 43-60: the date is retrieved and saved, or skipped
GRetrieve(f) ==
    LET outcome == RetrieveL2ARFL(RetrieveKeywords, f.date, f.available,
                                  f.failing)
        entered == IF BodyEntered(outcome) THEN f.retrieved \cup {f.date}
                   ELSE f.retrieved
    IN  IF outcome = "merged_cube"
        THEN [f EXCEPT !.filenames = Append(@, f.date),
                       !.existing = @ \cup {f.date},
                       !.retrieved = entered,
                       !.date = @ + 1]
        ELSE IF outcome = "EMITNotAvailable"
        THEN [f EXCEPT !.retrieved = entered, !.date = @ + 1]
        ELSE [f EXCEPT !.retrieved = entered, !.pc = "raised",
                       !.error = outcome]

\* line 62
GReturn(f) == [f EXCEPT !.pc = "returned"]

gidle == GStart(0, {}, {}, {})

(***************************************************************************)
(* The callers of validate_NetCDF_file and how each decides validity.      *)
(***************************************************************************)
Callers ==
    {"retrieve_EMIT_L2A_RFL_granule", "diagnose_netcdf_file",
     "clean_cache_directory", "diagnose_single_download"}

\* validate_NetCDF_file has no return statement: a call that does not
\* raise evaluates to None
ReturnValue(outcome) == IF outcome = "Valid" THEN "None" ELSE "raised"

\* bool(value)
Truthy(value) == value \notin {"None", "False", "0", ""}

\* the caller's decision on a file: "valid", "invalid", or "not validated"
\* when the caller returns before calling validate_NetCDF_file
Decision(caller, f, readable) ==
    LET outcome == Validate(f, FALSE).outcome
    IN  IF caller = "diagnose_netcdf_file"
             /\ (~f.exists \/ f.size = 0 \/ ~readable)
        THEN "not validated"
        ELSE IF caller = "diagnose_single_download"
        THEN IF outcome = "Valid" /\ Truthy(ReturnValue(outcome))
             THEN "valid" ELSE "invalid"
        ELSE IF outcome = "Valid" THEN "valid" ELSE "invalid"

DStart(caller, f, readable) ==
    [pc |-> "call", caller |-> caller, file |-> f, readable |-> readable,
     decision |-> "none"]

DDecide(f) ==
    [f EXCEPT !.decision = Decision(f.caller, f.file, f.readable),
              !.pc = "decided"]

didle == DStart("retrieve_EMIT_L2A_RFL_granule", MissingFile, FALSE)

(***************************************************************************)
(* Two concurrent retrieve_EMIT_L2A_RFL_granule calls for the same granule *)
(* and directory, with skip_validation false.  The calls share the files   *)
(* and nothing else; each runs the code of lines 111-213, and the steps of *)
(* the two interleave between a validate_NetCDF_file call and the except   *)
(* clause that follows it.                                                 *)
(***************************************************************************)
ConcurrentMaxRetries == 1
Calls == 1..2

\* a call at line 113, about to validate the first file
CStart ==
    [pc |-> "validate", phase |-> "initial", k |-> 1,
     files_to_download |-> <<>>, retry_count |-> 0,
     validated |-> {}, disturbed |-> {}, invalid_at_return |-> {}]

\* the next file of the pass, or the end of the pass: after the initial
\* check the loop test (line 129), after a revalidation the break of
\* lines 182-184 or retry_count += 1 (line 186)
CAdvance(this) ==
    IF this.k < 3
    THEN [this EXCEPT !.k = @ + 1, !.pc = "validate"]
    ELSE IF this.phase = "initial"
    THEN [this EXCEPT !.pc = "loop"]
    ELSE IF this.files_to_download = <<>>
    THEN [this EXCEPT !.pc = "final"]
    ELSE [this EXCEPT !.pc = "loop", !.retry_count = @ + 1]

\* a file of the other call is removed: the call has validated it
CDisturb(this, path) ==
    IF path \in this.validated
    THEN [this EXCEPT !.disturbed = @ \cup {path}]
    ELSE this

cidle == [fs |-> [i \in LinkSlots |-> MissingFile], calls |-> <<>>]

idle == VStart(MissingFile, FALSE)
widle == WStart(FALSE, 0, TRUE, [k \in 1..MaxChecks |-> "size a"])
uidle == UStart(FALSE, 0, [k \in 1..MaxAttempts |-> "removed"])

\* every wait_for_file_stability call returns True
Stable == [i \in LinkSlots |-> TRUE]

\* none of the other frames is in use
NoOthers ==
    /\ im = midle
    /\ ts = gidle
    /\ vc = didle
    /\ cc = cidle

\* no exhaustion error has been raised
NoMessage == [max_retries |-> 0, files |-> <<>>]

\* ExhaustionMessage as a generic failure notice that names no file
ExhaustionMessageGeneric(retries, files) ==
    [max_retries |-> retries, files |-> <<>>]

\* lines 190-203: error_msg, whose variable parts are max_retries and
\* files_to_download
ExhaustionMessage(retries, files) ==
    [max_retries |-> retries, files |-> files]

\* the state at the call of retrieve_EMIT_L2A_RFL_granule with arguments c
Called(c) ==
    /\ pc = "start"
    /\ call = 1
    /\ granule_arg = c.granule
    /\ orbit = c.orbit
    /\ scene = c.scene
    /\ download_directory = c.directory
    /\ max_retries = c.max_retries
    /\ retry_delay = c.retry_delay
    /\ remote_granule = granule_arg
    /\ reflectance_filename = 0
    /\ mask_filename = 0
    /\ uncertainty_filename = 0
    /\ files_to_download = <<>>
    /\ retry_count = 0
    /\ search_calls = 0
    /\ validate_calls = {}
    /\ remove_calls = [i \in LinkSlots |-> 0]
    /\ stability_calls = {}
    /\ downloads = <<>>
    /\ sleeps = <<>>
    /\ last_pass = <<>>
    /\ last_attempt = "none"
    /\ error = "none"
    /\ error_message = NoMessage
    /\ first_result = [granule |-> 0, paths |-> <<>>]

Init ==
    /\ \E c \in CallArguments : Called(c)
    /\ skip_validation \in BOOLEAN
    /\ stability_results = Stable
    /\ fs \in [LinkSlots -> CachedFiles]
    /\ v = idle
    /\ NoOthers
    /\ w = widle
    /\ u = uidle

\* raise: the call ends with an exception
Raise(e) ==
    /\ pc' = "raised"
    /\ error' = e

\* Resolve that searches whenever no descriptor is given, with or without
\* an orbit and a scene
ResolveAlwaysSearching ==
    /\ pc = "start"
    /\ \E found \in SearchResults :
          LET searched == remote_granule = 0
              granule == IF searched THEN found ELSE remote_granule
          IN  /\ remote_granule' = granule
              /\ search_calls' = IF searched THEN search_calls + 1 ELSE search_calls
              /\ IF granule = 0
                 THEN Raise("ValueError")
                 ELSE pc' = "classify" /\ error' = error
    /\ UNCHANGED <<call, arguments, roles, files_to_download, retry_count, fs,
                   validate_calls, remove_calls, stability_calls, downloads,
                   sleeps, last_pass, last_attempt, first_result, error_message, v, w, u,
                   stability_results, others>>

\* lines 52-56: Resolving
Resolve ==
    /\ pc = "start"
    /\ \E found \in SearchResults :
          LET searched == remote_granule = 0 /\ orbit # 0 /\ scene # 0
              granule == IF searched THEN found ELSE remote_granule
          IN  /\ remote_granule' = granule
              /\ search_calls' = IF searched THEN search_calls + 1 ELSE search_calls
              /\ IF granule = 0
                 THEN Raise("ValueError")
                 ELSE pc' = "classify" /\ error' = error
    /\ UNCHANGED <<call, arguments, roles, files_to_download, retry_count, fs,
                   validate_calls, remove_calls, stability_calls, downloads,
                   sleeps, last_pass, last_attempt, first_result, error_message, v, w, u,
                   stability_results, others>>

\* Classify without the product prefix test of lines 62-63
ClassifyAnyProduct ==
    /\ pc = "classify"
    /\ IF DataLinks(remote_granule) = <<>>
       THEN /\ Raise("IndexError")
            /\ UNCHANGED roles
       ELSE LET local_files == LocalFiles(remote_granule, download_directory)
                found == IdentifyFiles(local_files)
            IN  IF \/ found.reflectance = NoFile
                   \/ found.mask = NoFile
                   \/ found.uncertainty = NoFile
                THEN /\ Raise("ValueError")
                     /\ UNCHANGED roles
                ELSE /\ reflectance_filename' = PathIndex(local_files, found.reflectance)
                     /\ mask_filename' = PathIndex(local_files, found.mask)
                     /\ uncertainty_filename' = PathIndex(local_files, found.uncertainty)
                     /\ pc' = "initial"
                     /\ error' = error
    /\ UNCHANGED <<call, arguments, remote_granule, files_to_download,
                   retry_count, fs, observed, first_result, error_message, v, w, u,
                   stability_results, others>>

\* lines 58-109: Classifying
Classify ==
    /\ pc = "classify"
    /\ IF DataLinks(remote_granule) = <<>>
       THEN \* line 59: data_links()[0] of an empty list
            /\ Raise("IndexError")
            /\ UNCHANGED roles
       ELSE IF ~StartsWith(GranuleID(remote_granule), ProductPrefix)
       THEN \* lines 62-63
            /\ Raise("ValueError")
            /\ UNCHANGED roles
       ELSE LET local_files == LocalFiles(remote_granule, download_directory)
                found == IdentifyFiles(local_files)
            IN  IF \/ found.reflectance = NoFile
                   \/ found.mask = NoFile
                   \/ found.uncertainty = NoFile
                THEN \* lines 100-101
                     /\ Raise("ValueError")
                     /\ UNCHANGED roles
                ELSE /\ reflectance_filename' = PathIndex(local_files, found.reflectance)
                     /\ mask_filename' = PathIndex(local_files, found.mask)
                     /\ uncertainty_filename' = PathIndex(local_files, found.uncertainty)
                     /\ pc' = "initial"
                     /\ error' = error
    /\ UNCHANGED <<call, arguments, remote_granule, files_to_download,
                   retry_count, fs, observed, first_result, error_message, v, w, u,
                   stability_results, others>>

\* lines 111-135: InitialCheck
InitialCheck ==
    /\ pc = "initial"
    /\ IF ~skip_validation
       THEN \E removals \in RemovalChoices(fs, roles) :
               LET pass == ValidationPass(fs, roles, removals,
                                          validate_calls, remove_calls)
               IN  /\ fs' = pass.fs
                   /\ files_to_download' = pass.files_to_download
                   /\ validate_calls' = pass.validate_calls
                   /\ remove_calls' = pass.remove_calls
                   /\ last_pass' = pass.outcomes
                   /\ IF pass.escaped # "none"
                      THEN Raise(pass.escaped)
                      ELSE pc' = "loop" /\ error' = error
       ELSE /\ files_to_download' = MissingPaths(fs, roles)
            /\ pc' = "loop"
            /\ UNCHANGED <<fs, validate_calls, remove_calls, last_pass, error>>
    /\ retry_count' = 0
    /\ UNCHANGED <<call, arguments, remote_granule, roles, search_calls,
                   stability_calls, downloads, sleeps, last_attempt,
                   first_result, error_message, v, w, u,
                   stability_results, others>>

\* LoopHead as a do-while: the first attempt is made whatever the retry set
LoopHeadAtLeastOnce ==
    /\ pc = "loop"
    /\ IF (files_to_download # <<>> \/ retry_count = 0) /\ retry_count < max_retries
       THEN /\ sleeps' = IF retry_count > 0
                         THEN Append(sleeps, WaitTime(retry_delay, retry_count))
                         ELSE sleeps
            /\ pc' = "download"
       ELSE /\ pc' = "final"
            /\ UNCHANGED sleeps
    /\ UNCHANGED <<call, arguments, remote_granule, roles, files_to_download,
                   retry_count, fs, search_calls, validate_calls, remove_calls,
                   stability_calls, downloads, last_pass, last_attempt, error,
                   first_result, error_message, v, w, u,
                   stability_results, others>>

\* LoopHead whose test is retry_count <= max_retries
LoopHeadInclusive ==
    /\ pc = "loop"
    /\ IF files_to_download # <<>> /\ retry_count <= max_retries
       THEN /\ sleeps' = IF retry_count > 0
                         THEN Append(sleeps, WaitTime(retry_delay, retry_count))
                         ELSE sleeps
            /\ pc' = "download"
       ELSE /\ pc' = "final"
            /\ UNCHANGED sleeps
    /\ UNCHANGED <<call, arguments, remote_granule, roles, files_to_download,
                   retry_count, fs, search_calls, validate_calls, remove_calls,
                   stability_calls, downloads, last_pass, last_attempt, error,
                   first_result, error_message, v, w, u,
                   stability_results, others>>

\* lines 136-147: the loop test and the backoff sleep
LoopHead ==
    /\ pc = "loop"
    /\ IF files_to_download # <<>> /\ retry_count < max_retries
       THEN /\ sleeps' = IF retry_count > 0
                         THEN Append(sleeps, WaitTime(retry_delay, retry_count))
                         ELSE sleeps
            /\ pc' = "download"
       ELSE /\ pc' = "final"
            /\ UNCHANGED sleeps
    /\ UNCHANGED <<call, arguments, remote_granule, roles, files_to_download,
                   retry_count, fs, search_calls, validate_calls, remove_calls,
                   stability_calls, downloads, last_pass, last_attempt, error,
                   first_result, error_message, v, w, u,
                   stability_results, others>>

\* Download without the except clause of lines 93-95: the transport's
\* exception reaches the caller
DownloadUncaught ==
    /\ pc = "download"
    /\ LET requested == 1..Len(DataLinks(remote_granule)) IN
       \E raises \in BOOLEAN,
          new \in [{i \in requested : ~fs[i].exists} -> CachedFiles] :
              /\ fs' = Transport(fs, requested, new)
              /\ downloads' = Append(downloads,
                     [threads |-> Threads(retry_count), urls |-> requested])
              /\ retry_count' = retry_count
              /\ IF raises
                 THEN /\ last_attempt' = "exception"
                      /\ Raise("Exception")
                 ELSE /\ last_attempt' = "downloaded"
                      /\ pc' = "stabilize"
                      /\ error' = error
    /\ UNCHANGED <<call, arguments, remote_granule, roles, files_to_download,
                   search_calls, validate_calls, remove_calls, stability_calls,
                   sleeps, last_pass, first_result, error_message, v, w, u,
                   stability_results, others>>

\* Download that requests the links of the retry set only
DownloadRetrySetOnly ==
    /\ pc = "download"
    /\ LET requested == Range(files_to_download) IN
       \E raises \in BOOLEAN,
          new \in [{i \in requested : ~fs[i].exists} -> CachedFiles] :
              /\ fs' = Transport(fs, requested, new)
              /\ downloads' = Append(downloads,
                     [threads |-> Threads(retry_count), urls |-> requested])
              /\ IF raises
                 THEN /\ retry_count' = retry_count + 1
                      /\ last_attempt' = "exception"
                      /\ pc' = "loop"
                 ELSE /\ retry_count' = retry_count
                      /\ last_attempt' = "downloaded"
                      /\ pc' = "stabilize"
    /\ UNCHANGED <<call, arguments, remote_granule, roles, files_to_download,
                   search_calls, validate_calls, remove_calls, stability_calls,
                   sleeps, last_pass, error, first_result, error_message,
                   v, w, u,
                   stability_results, others>>

\* lines 150-152 and 82-95: one download invocation for all the data links
Download ==
    /\ pc = "download"
    /\ LET requested == 1..Len(DataLinks(remote_granule)) IN
       \E raises \in BOOLEAN,
          new \in [{i \in requested : ~fs[i].exists} -> CachedFiles] :
              /\ fs' = Transport(fs, requested, new)
              /\ downloads' = Append(downloads,
                     [threads |-> Threads(retry_count), urls |-> requested])
              /\ IF raises
                 THEN \* _download_files returns False: lines 93-95, 151-152
                      /\ retry_count' = retry_count + 1
                      /\ last_attempt' = "exception"
                      /\ pc' = "loop"
                 ELSE /\ retry_count' = retry_count
                      /\ last_attempt' = "downloaded"
                      /\ pc' = "stabilize"
    /\ UNCHANGED <<call, arguments, remote_granule, roles, files_to_download,
                   search_calls, validate_calls, remove_calls, stability_calls,
                   sleeps, last_pass, error, first_result, error_message, v, w, u,
                   stability_results, others>>

\* Stabilize that waits on the files of the retry set only
StabilizeRetrySetOnly ==
    /\ pc = "stabilize"
    /\ stability_calls' =
          {p \in Range(files_to_download) : fs[p].exists}
    /\ pc' = "revalidate"
    /\ UNCHANGED <<call, arguments, remote_granule, roles, files_to_download,
                   retry_count, fs, search_calls, validate_calls, remove_calls,
                   downloads, sleeps, last_pass, last_attempt, error,
                   first_result, error_message, v, w, u,
                   stability_results, others>>

\* lines 154-165: Stabilizing
Stabilize ==
    /\ pc = "stabilize"
    /\ stability_calls' =
          {roles[k] : k \in {j \in 1..3 : fs[roles[j]].exists}}
    /\ pc' = "revalidate"
    /\ UNCHANGED <<call, arguments, remote_granule, roles, files_to_download,
                   retry_count, fs, search_calls, validate_calls, remove_calls,
                   downloads, sleeps, last_pass, last_attempt, error,
                   first_result, error_message, v, w, u,
                   stability_results, others>>

\* Revalidate that trusts the stability wait: when a wait returned False
\* no file is validated and the three are queued again
RevalidateTrustingWait ==
    /\ pc = "revalidate"
    /\ IF \E p \in stability_calls : ~stability_results[p]
       THEN /\ files_to_download' = roles
            /\ last_pass' = <<FALSE, FALSE, FALSE>>
            /\ UNCHANGED <<fs, validate_calls, remove_calls, error>>
       ELSE IF ~skip_validation
       THEN \E removals \in RemovalChoices(fs, roles) :
               LET pass == ValidationPass(fs, roles, removals,
                                          validate_calls, remove_calls)
               IN  /\ fs' = pass.fs
                   /\ files_to_download' = pass.files_to_download
                   /\ validate_calls' = pass.validate_calls
                   /\ remove_calls' = pass.remove_calls
                   /\ last_pass' = pass.outcomes
                   /\ error' = error
       ELSE /\ files_to_download' = <<>>
            /\ UNCHANGED <<fs, validate_calls, remove_calls, last_pass, error>>
    /\ IF files_to_download' = <<>>
       THEN /\ pc' = "final"
            /\ last_attempt' = "validated"
            /\ retry_count' = retry_count
       ELSE /\ pc' = "loop"
            /\ last_attempt' = "invalid"
            /\ retry_count' = retry_count + 1
    /\ stability_calls' = {}
    /\ UNCHANGED <<call, arguments, remote_granule, roles, search_calls,
                   downloads, sleeps, first_result, error_message, v, w, u,
                   stability_results, others>>

\* lines 167-186: Revalidating and the end of the loop body
Revalidate ==
    /\ pc = "revalidate"
    /\ IF ~skip_validation
       THEN \E removals \in RemovalChoices(fs, roles) :
               LET pass == ValidationPass(fs, roles, removals,
                                          validate_calls, remove_calls)
               IN  /\ fs' = pass.fs
                   /\ files_to_download' = pass.files_to_download
                   /\ validate_calls' = pass.validate_calls
                   /\ remove_calls' = pass.remove_calls
                   /\ last_pass' = pass.outcomes
                   /\ IF pass.escaped # "none"
                      THEN Raise(pass.escaped)
                      ELSE error' = error
       ELSE /\ files_to_download' = <<>>
            /\ UNCHANGED <<fs, validate_calls, remove_calls, last_pass, error>>
    /\ IF error' # error
       THEN \* the exception leaves the loop
            /\ last_attempt' = "escaped"
            /\ retry_count' = retry_count
       ELSE IF files_to_download' = <<>>
       THEN \* line 184: break
            /\ pc' = "final"
            /\ last_attempt' = "validated"
            /\ retry_count' = retry_count
       ELSE /\ pc' = "loop"
            /\ last_attempt' = "invalid"
            /\ retry_count' = retry_count + 1
    /\ stability_calls' = {}
    /\ UNCHANGED <<call, arguments, remote_granule, roles, search_calls,
                   downloads, sleeps, first_result, error_message, v, w, u,
                   stability_results, others>>

\* Final whose test of line 189 ignores skip_validation
FinalIgnoringSkip ==
    /\ pc = "final"
    /\ IF files_to_download # <<>>
       THEN Raise("FileNotFoundError")
       ELSE pc' = "returned" /\ error' = error
    /\ UNCHANGED <<call, arguments, remote_granule, roles, files_to_download,
                   retry_count, fs, observed, first_result, error_message, v, w, u,
                   stability_results, others>>

\* Final without the test of line 189: the granule is always returned
FinalAlwaysReturns ==
    /\ pc = "final"
    /\ pc' = "returned"
    /\ UNCHANGED <<call, arguments, remote_granule, roles, files_to_download,
                   retry_count, fs, observed, error, first_result, error_message, v, w, u,
                   stability_results, others>>

\* lines 188-213: Terminal
Final ==
    /\ pc = "final"
    /\ IF files_to_download # <<>> /\ ~skip_validation
       THEN /\ Raise("FileNotFoundError")
            /\ error_message' = ExhaustionMessage(max_retries, files_to_download)
       ELSE /\ pc' = "returned"
            /\ UNCHANGED <<error, error_message>>
    /\ UNCHANGED <<call, arguments, remote_granule, roles, files_to_download,
                   retry_count, fs, observed, first_result, v, w, u,
                   stability_results, others>>

\* the caller runs the same call again on the download directory as the
\* first call left it
Rerun ==
    /\ pc = "returned"
    /\ call = 1
    /\ call' = 2
    /\ pc' = "start"
    /\ first_result' = [granule |-> remote_granule, paths |-> roles]
    /\ remote_granule' = granule_arg
    /\ reflectance_filename' = 0
    /\ mask_filename' = 0
    /\ uncertainty_filename' = 0
    /\ files_to_download' = <<>>
    /\ retry_count' = 0
    /\ search_calls' = 0
    /\ validate_calls' = {}
    /\ remove_calls' = [i \in LinkSlots |-> 0]
    /\ stability_calls' = {}
    /\ downloads' = <<>>
    /\ sleeps' = <<>>
    /\ last_pass' = <<>>
    /\ last_attempt' = "none"
    /\ UNCHANGED <<arguments, fs, error, error_message, v, w, u,
                   stability_results, others>>

Next ==
    \/ Resolve
    \/ Classify
    \/ InitialCheck
    \/ LoopHead
    \/ Download
    \/ Stabilize
    \/ Revalidate
    \/ Final
    \/ Rerun

Spec == Init /\ [][Next]_vars

(***************************************************************************)
(* One call of the first descriptor, with every max_retries, run to its    *)
(* end and not run again.  Every call the retriever makes terminates, so   *)
(* a step that is enabled is eventually taken.                             *)
(***************************************************************************)
InitOnce ==
    /\ \E r \in 0..MaxRetriesBound :
          Called([granule |-> 1, orbit |-> 0, scene |-> 0, directory |-> 1,
                  max_retries |-> r, retry_delay |-> 2])
    /\ skip_validation \in BOOLEAN
    /\ stability_results = Stable
    /\ fs \in [LinkSlots -> CachedFiles]
    /\ v = idle
    /\ NoOthers
    /\ w = widle
    /\ u = uidle

NextOnce ==
    \/ Resolve
    \/ Classify
    \/ InitialCheck
    \/ LoopHead
    \/ Download
    \/ Stabilize
    \/ Revalidate
    \/ Final

\* weak fairness of NextOnce.  A step of NextOnce is enabled exactly when
\* the call has not ended, so WF_vars(NextOnce) is: the call is ended
\* infinitely often or takes a step infinitely often.
FairOnce == []<>(pc \in {"returned", "raised"}) \/ []<><<NextOnce>>_vars

SpecOnce == InitOnce /\ [][NextOnce]_vars /\ FairOnce

(***************************************************************************)
(* The call with one retry and validation, over every result of the        *)
(* stability waits.                                                        *)
(***************************************************************************)
InitWaits ==
    /\ Called([granule |-> 1, orbit |-> 0, scene |-> 0, directory |-> 1,
               max_retries |-> 1, retry_delay |-> 2])
    /\ skip_validation = FALSE
    /\ stability_results \in [LinkSlots -> BOOLEAN]
    /\ fs \in [LinkSlots -> CachedFiles]
    /\ v = idle
    /\ NoOthers
    /\ w = widle
    /\ u = uidle

SpecWaits == InitWaits /\ [][Next]_vars

(***************************************************************************)
(* The call with one retry, over a cache that holds a file of every        *)
(* validation outcome.                                                     *)
(***************************************************************************)
InitAllKinds ==
    /\ Called([granule |-> 1, orbit |-> 0, scene |-> 0, directory |-> 1,
               max_retries |-> 1, retry_delay |-> 2])
    /\ skip_validation = FALSE
    /\ stability_results = Stable
    /\ fs \in [LinkSlots -> AnyFiles]
    /\ v = idle
    /\ NoOthers
    /\ w = widle
    /\ u = uidle

SpecAllKinds == InitAllKinds /\ [][Next]_vars

(***************************************************************************)
(* Resolving and Classifying alone (lines 52-109), which read nothing but  *)
(* the arguments: every descriptor with every directory.                   *)
(***************************************************************************)
ClassifyArguments ==
    [granule : 1..Len(Descriptors), orbit : {0}, scene : {0},
     directory : 1..Len(Directories), max_retries : {3}, retry_delay : {2}]
    \cup [granule : {0}, orbit : 0..1, scene : 0..1,
          directory : 1..Len(Directories), max_retries : {3}, retry_delay : {2}]

InitClassify ==
    /\ \E c \in ClassifyArguments : Called(c)
    /\ skip_validation = FALSE
    /\ stability_results = Stable
    /\ fs = [i \in LinkSlots |-> MissingFile]
    /\ v = idle
    /\ NoOthers
    /\ w = widle
    /\ u = uidle

NextClassify ==
    \/ Resolve
    \/ Classify

SpecClassify == InitClassify /\ [][NextClassify]_vars

(***************************************************************************)
(* One validate_NetCDF_file call on a drawn file, statement by statement.  *)
(***************************************************************************)
retriever ==
    <<pc, call, arguments, remote_granule, roles, files_to_download,
      retry_count, fs, observed, stability_results, error, error_message,
      first_result>>

\* the retriever's call held at its entry with no argument
NotCalled ==
    /\ Called([granule |-> 0, orbit |-> 0, scene |-> 0, directory |-> 1,
               max_retries |-> 3, retry_delay |-> 2])
    /\ skip_validation = FALSE
    /\ stability_results = Stable
    /\ fs = [i \in LinkSlots |-> MissingFile]

InitValidate ==
    /\ Called([granule |-> 0, orbit |-> 0, scene |-> 0, directory |-> 1,
               max_retries |-> 3, retry_delay |-> 2])
    /\ skip_validation = FALSE
    /\ stability_results = Stable
    /\ fs = [i \in LinkSlots |-> MissingFile]
    /\ \E f \in Files, check_integrity \in BOOLEAN :
          v = VStart(f, check_integrity)
    /\ NoOthers
    /\ w = widle
    /\ u = uidle

CheckExists ==
    /\ v.pc = "exists"
    /\ v' = VCheckExists(v)
    /\ UNCHANGED <<retriever, w, u, others>>

CheckSize ==
    /\ v.pc = "size"
    /\ v' = VCheckSize(v)
    /\ UNCHANGED <<retriever, w, u, others>>

Open ==
    /\ v.pc = "open"
    /\ v' = VOpen(v)
    /\ UNCHANGED <<retriever, w, u, others>>

CheckStructure ==
    /\ v.pc = "structure"
    /\ v' = VStructure(v)
    /\ UNCHANGED <<retriever, w, u, others>>

CheckIntegrity ==
    /\ v.pc = "integrity"
    /\ v' = VIntegrity(v)
    /\ UNCHANGED <<retriever, w, u, others>>

Except ==
    /\ v.pc = "except"
    /\ v' = VExcept(v)
    /\ UNCHANGED <<retriever, w, u, others>>

\* a second call on the same path, the file being as the first call left it
Again ==
    /\ v.pc = "done"
    /\ v.previous = "none"
    /\ v' = [VStart(v.file, v.check_integrity) EXCEPT !.previous = v.outcome]
    /\ UNCHANGED <<retriever, w, u, others>>

NextValidate ==
    \/ CheckExists
    \/ CheckSize
    \/ Open
    \/ CheckStructure
    \/ CheckIntegrity
    \/ Except
    \/ Again

SpecValidate == InitValidate /\ [][NextValidate]_vars

(***************************************************************************)
(* One wait_for_file_stability call, iteration by iteration.               *)
(***************************************************************************)
InitStability ==
    /\ NotCalled
    /\ v = idle
    /\ NoOthers
    /\ u = uidle
    /\ \E exists \in BOOLEAN, max_checks \in 0..MaxChecks,
          check_size \in BOOLEAN, stats \in [1..MaxChecks -> StatResults] :
          w = WStart(exists, max_checks, check_size, stats)

StabilityCheckExists ==
    /\ w.pc = "exists"
    /\ w' = WCheckExists(w)
    /\ UNCHANGED <<retriever, v, u, others>>

StabilityIterate ==
    /\ w.pc = "loop"
    /\ w' = WIterate(w)
    /\ UNCHANGED <<retriever, v, u, others>>

NextStability ==
    \/ StabilityCheckExists
    \/ StabilityIterate

SpecStability == InitStability /\ [][NextStability]_vars

(***************************************************************************)
(* One safe_file_remove call, over every sequence of unlink outcomes.      *)
(***************************************************************************)
InitRemove ==
    /\ NotCalled
    /\ v = idle
    /\ NoOthers
    /\ w = widle
    /\ \E present \in BOOLEAN, max_attempts \in 0..MaxAttempts,
          outs \in [1..MaxAttempts -> UnlinkOutcomes] :
          u = UStart(present, max_attempts, outs)

Remove ==
    /\ u.pc = "call"
    /\ u' = UReturn(u)
    /\ UNCHANGED <<retriever, v, w, others>>

NextRemove == Remove

SpecRemove == InitRemove /\ [][NextRemove]_vars

(***************************************************************************)
(* One import of the package, from every environment.                      *)
(***************************************************************************)
InitImport ==
    /\ NotCalled
    /\ v = idle
    /\ w = widle
    /\ u = uidle
    /\ ts = gidle
    /\ vc = didle
    /\ cc = cidle
    /\ \E environ \in Environments, preloaded \in BOOLEAN :
          im = MStart(environ, preloaded)

Import ==
    /\ im.pc = "import"
    /\ im' = MImport(im)
    /\ UNCHANGED <<retriever, v, w, u, ts, vc, cc>>

NextImport == Import

SpecImport == InitImport /\ [][NextImport]_vars

(***************************************************************************)
(* One generate_EMIT_L2A_RFL_timeseries call, date by date.                *)
(***************************************************************************)
InitTimeseries ==
    /\ NotCalled
    /\ v = idle
    /\ w = widle
    /\ u = uidle
    /\ im = midle
    /\ vc = didle
    /\ cc = cidle
    /\ \E last \in 0..MaxDates, existing \in SUBSET Dates,
          available \in SUBSET Dates, failing \in SUBSET Dates :
          ts = GStart(last, existing, available, failing)

TimeseriesExisting ==
    /\ ts.pc = "loop"
    /\ ts.date <= ts.last
    /\ ts.date \in ts.existing
    /\ ts' = GExisting(ts)
    /\ UNCHANGED <<retriever, v, w, u, im, vc, cc>>

TimeseriesRetrieve ==
    /\ ts.pc = "loop"
    /\ ts.date <= ts.last
    /\ ts.date \notin ts.existing
    /\ ts' = GRetrieve(ts)
    /\ UNCHANGED <<retriever, v, w, u, im, vc, cc>>

TimeseriesReturn ==
    /\ ts.pc = "loop"
    /\ ts.date > ts.last
    /\ ts' = GReturn(ts)
    /\ UNCHANGED <<retriever, v, w, u, im, vc, cc>>

NextTimeseries ==
    \/ TimeseriesExisting
    \/ TimeseriesRetrieve
    \/ TimeseriesReturn

SpecTimeseries == InitTimeseries /\ [][NextTimeseries]_vars

(***************************************************************************)
(* One decision of a caller of validate_NetCDF_file, on every file.        *)
(***************************************************************************)
InitCallers ==
    /\ NotCalled
    /\ v = idle
    /\ w = widle
    /\ u = uidle
    /\ im = midle
    /\ ts = gidle
    /\ cc = cidle
    /\ \E caller \in Callers, f \in Files, readable \in BOOLEAN :
          /\ f.open = "ok" => readable
          /\ vc = DStart(caller, f, readable)

Decide ==
    /\ vc.pc = "call"
    /\ vc' = DDecide(vc)
    /\ UNCHANGED <<retriever, v, w, u, im, ts, cc>>

NextCallers == Decide

SpecCallers == InitCallers /\ [][NextCallers]_vars

(***************************************************************************)
(* The two concurrent calls, step by step.                                 *)
(***************************************************************************)
InitConcurrent ==
    /\ NotCalled
    /\ v = idle
    /\ w = widle
    /\ u = uidle
    /\ im = midle
    /\ ts = gidle
    /\ vc = didle
    /\ \E files \in [LinkSlots -> CachedFiles] :
          cc = [fs |-> files, calls |-> [i \in Calls |-> CStart]]

\* CExcept without line 126 (180): the failed path is not put in the retry
\* set
CExceptDropsPath(i) ==
    /\ cc.calls[i].pc = "except"
    /\ LET this == cc.calls[i]
           path == this.k
       IN  \E removed \in BOOLEAN :
              /\ removed => cc.fs[path].exists
              /\ cc' = [fs |-> IF removed
                               THEN [cc.fs EXCEPT ![path] = MissingFile]
                               ELSE cc.fs,
                        calls |-> [j \in Calls |->
                           IF j = i THEN CAdvance(this)
                           ELSE IF removed THEN CDisturb(cc.calls[j], path)
                           ELSE cc.calls[j]]]
    /\ UNCHANGED <<retriever, v, w, u, im, ts, vc>>

\* lines 115-116 (172-173): validate_NetCDF_file on the file of role k
CValidate(i) ==
    /\ cc.calls[i].pc = "validate"
    /\ LET this == cc.calls[i]
           path == this.k
       IN  cc' = [cc EXCEPT !.calls[i] =
                     IF Validate(cc.fs[path], FALSE).outcome = "Valid"
                     THEN CAdvance([this EXCEPT !.validated = @ \cup {path}])
                     ELSE [this EXCEPT !.pc = "except"]]
    /\ UNCHANGED <<retriever, v, w, u, im, ts, vc>>

\* lines 117-126 (174-180): the except clause; safe_file_remove on a file
\* that exists removes it or fails
CExcept(i) ==
    /\ cc.calls[i].pc = "except"
    /\ LET this == cc.calls[i]
           path == this.k
       IN  \E removed \in BOOLEAN :
              /\ removed => cc.fs[path].exists
              /\ cc' = [fs |-> IF removed
                               THEN [cc.fs EXCEPT ![path] = MissingFile]
                               ELSE cc.fs,
                        calls |-> [j \in Calls |->
                           IF j = i
                           THEN CAdvance([this EXCEPT
                                   !.files_to_download = Append(@, path)])
                           ELSE IF removed THEN CDisturb(cc.calls[j], path)
                           ELSE cc.calls[j]]]
    /\ UNCHANGED <<retriever, v, w, u, im, ts, vc>>

\* line 129
CLoopHead(i) ==
    /\ cc.calls[i].pc = "loop"
    /\ LET this == cc.calls[i]
       IN  cc' = [cc EXCEPT !.calls[i].pc =
                     IF this.files_to_download # <<>>
                        /\ this.retry_count < ConcurrentMaxRetries
                     THEN "download" ELSE "final"]
    /\ UNCHANGED <<retriever, v, w, u, im, ts, vc>>

\* lines 150-168: the download of all the data links, then
\* files_to_download = []
CDownload(i) ==
    /\ cc.calls[i].pc = "download"
    /\ LET this == cc.calls[i]
       IN  \E raises \in BOOLEAN,
              new \in [{p \in LinkSlots : ~cc.fs[p].exists} -> CachedFiles] :
                 cc' = [fs |-> Transport(cc.fs, LinkSlots, new),
                        calls |-> [cc.calls EXCEPT ![i] =
                           IF raises
                           THEN [this EXCEPT !.retry_count = @ + 1,
                                             !.pc = "loop"]
                           ELSE [this EXCEPT !.pc = "validate",
                                             !.phase = "revalidate",
                                             !.k = 1,
                                             !.files_to_download = <<>>,
                                             !.validated = {},
                                             !.disturbed = {}]]]
    /\ UNCHANGED <<retriever, v, w, u, im, ts, vc>>

\* lines 189-213: the exhaustion error, or the granule is returned
CFinal(i) ==
    /\ cc.calls[i].pc = "final"
    /\ LET this == cc.calls[i]
       IN  cc' = [cc EXCEPT !.calls[i] =
                     IF this.files_to_download # <<>>
                     THEN [this EXCEPT !.pc = "raised"]
                     ELSE [this EXCEPT
                             !.pc = "returned",
                             !.invalid_at_return =
                                {p \in LinkSlots :
                                   Validate(cc.fs[p], FALSE).outcome
                                      # "Valid"}]]
    /\ UNCHANGED <<retriever, v, w, u, im, ts, vc>>

NextConcurrent ==
    \E i \in Calls :
       \/ CValidate(i)
       \/ CExcept(i)
       \/ CLoopHead(i)
       \/ CDownload(i)
       \/ CFinal(i)

SpecConcurrent == InitConcurrent /\ [][NextConcurrent]_vars

(***************************************************************************)
(* Properties.                                                             *)
(***************************************************************************)
AllValid == <<TRUE, TRUE, TRUE>>
NoRemoveCalls == [i \in LinkSlots |-> 0]
ended == pc \in {"returned", "raised"}

\* what validate_NetCDF_file says of the file now at a path
OnDisk(path) == Validate(fs[path], FALSE).outcome

\* C1: with skip_validation = false the call returns only if every role
\* validated in the last validation pass, that pass being InitialCheck (no
\* download was made) or the Revalidating step of the last download attempt,
\* and at the return each of the three paths holds a file that validates.
C1_ReturnsOnlyValidated ==
    (pc = "returned" /\ ~skip_validation) =>
        /\ last_pass = AllValid
        /\ files_to_download = <<>>
        /\ \/ downloads = <<>> /\ last_attempt = "none"
           \/ downloads # <<>> /\ last_attempt = "validated"
        /\ \A k \in 1..3 : OnDisk(roles[k]) = "Valid"

\* C1: a call that returned after a download attempt and its revalidation
C1_Witness ==
    /\ pc = "returned"
    /\ ~skip_validation
    /\ Len(downloads) = 2
    /\ last_attempt = "validated"

\* C2 (the claim as stated): with skip_validation = false a call that ends
\* with a non-empty retry set raises FileNotFoundError, and the paths the
\* error names (files_to_download) are exactly the role paths whose file is
\* invalid or missing on disk when it is raised.
C2_ErrorNamesExactlyInvalid ==
    (ended /\ ~skip_validation /\ files_to_download # <<>>) =>
        /\ pc = "raised"
        /\ error = "FileNotFoundError"
        /\ Range(files_to_download) =
              {roles[k] : k \in {j \in 1..3 : OnDisk(roles[j]) # "Valid"}}

\* C3: when InitialCheck validates all three files the call makes no
\* download, no removal and no backoff sleep and returns; and the re-run of
\* a call that returned, for the same descriptor, makes no download, no
\* removal and no sleep and returns the same three paths.
C3_AllValidNoWork ==
    /\ (~skip_validation /\ last_pass = AllValid /\ downloads = <<>>) =>
          /\ pc \in {"loop", "final", "returned"}
          /\ files_to_download = <<>>
          /\ remove_calls = NoRemoveCalls
          /\ sleeps = <<>>
    /\ (/\ call = 2
        /\ ~skip_validation
        /\ pc # "start"
        /\ remote_granule = first_result.granule) =>
          /\ pc \in {"classify", "initial", "loop", "final", "returned"}
          /\ downloads = <<>>
          /\ remove_calls = NoRemoveCalls
          /\ sleeps = <<>>
          /\ \A k \in 1..3 : OnDisk(first_result.paths[k]) = "Valid"
          /\ pc = "returned" => roles = first_result.paths

\* C3: the re-run of a call that returned has returned
C3_Witness ==
    /\ call = 2
    /\ ~skip_validation
    /\ pc = "returned"
    /\ last_pass = AllValid
    /\ downloads = <<>>
    /\ roles = first_result.paths

\* C4: a ValueError is raised before the retry loop: no download, validate,
\* removal, sleep or counted attempt has happened, and the search was made
\* at most once; a descriptor whose granule id lacks the product prefix or
\* whose roles are not all identified never gets past Classifying.
C4_ConfigurationErrorsFirst ==
    /\ (pc = "raised" /\ error = "ValueError") =>
          /\ downloads = <<>>
          /\ validate_calls = {}
          /\ remove_calls = NoRemoveCalls
          /\ sleeps = <<>>
          /\ retry_count = 0
          /\ search_calls <= 1
    /\ pc \in {"initial", "loop", "download", "stabilize", "revalidate",
               "final", "returned"} =>
          /\ remote_granule # 0
          /\ StartsWith(GranuleID(remote_granule), ProductPrefix)
          /\ \A k \in 1..3 : roles[k] # 0

\* C4: the call given a descriptor led by the mask file has raised ValueError
C4_Witness ==
    /\ pc = "raised"
    /\ error = "ValueError"
    /\ remote_granule = 3
    /\ ~StartsWith(GranuleID(remote_granule), ProductPrefix)

\* C5, the scenario after InitialCheck: skip_validation = false,
\* max_retries = 2, the reflectance file was present and failed validation
\* (safe_file_remove was called on it), mask and uncertainty validated
C5_AfterInitialCheck ==
    /\ ~skip_validation
    /\ max_retries = 2
    /\ downloads = <<>>
    /\ last_pass = <<FALSE, TRUE, TRUE>>
    /\ remove_calls[reflectance_filename] >= 1

\* C5, the scenario after the first download invocation, which did not
\* raise and left a valid reflectance file
C5_AfterDelivery ==
    /\ ~skip_validation
    /\ max_retries = 2
    /\ Len(downloads) = 1
    /\ last_attempt = "downloaded"
    /\ last_pass = <<FALSE, TRUE, TRUE>>
    /\ remove_calls[reflectance_filename] >= 1
    /\ OnDisk(reflectance_filename) = "Valid"

C5_OneRemoval ==
    remove_calls = [i \in LinkSlots |-> IF i = reflectance_filename THEN 1 ELSE 0]

\* C5: in that scenario only the reflectance file is removed (once) and
\* put in the retry set, one download is invoked with no sleep before it,
\* the mask and uncertainty files stay as they were at every step, the
\* revalidation empties the retry set without a further removal, and the
\* call returns without another download.
C5_OnlyReflectanceRepaired ==
    /\ [](C5_AfterInitialCheck =>
            /\ pc \in {"loop", "download"}
            /\ files_to_download = <<reflectance_filename>>
            /\ C5_OneRemoval
            /\ sleeps = <<>>
            /\ OnDisk(mask_filename) = "Valid"
            /\ OnDisk(uncertainty_filename) = "Valid")
    /\ [](C5_AfterDelivery =>
            /\ pc \in {"stabilize", "revalidate"}
            /\ C5_OneRemoval
            /\ sleeps = <<>>
            /\ OnDisk(mask_filename) = "Valid"
            /\ OnDisk(uncertainty_filename) = "Valid")
    /\ [][(C5_AfterInitialCheck \/ C5_AfterDelivery) =>
            /\ fs'[mask_filename] = fs[mask_filename]
            /\ fs'[uncertainty_filename] = fs[uncertainty_filename]
            /\ Len(downloads') <= 1]_vars
    /\ [][(C5_AfterDelivery /\ pc = "revalidate") =>
            /\ pc' = "final"
            /\ last_attempt' = "validated"
            /\ files_to_download' = <<>>
            /\ UNCHANGED <<fs, remove_calls, downloads, sleeps>>]_vars
    /\ [][(pc = "final" /\ last_attempt = "validated") =>
            /\ pc' = "returned"
            /\ UNCHANGED <<fs, remove_calls, downloads, sleeps>>]_vars

\* C5: the scenario, at the revalidation of the delivered reflectance file
C5_Witness ==
    /\ C5_AfterDelivery
    /\ pc = "revalidate"

\* C6: the j-th backoff sleep lasts retry_delay * 2^(j-1) seconds; when
\* download attempt k is about to be invoked exactly k-1 sleeps have been
\* made (none before attempt 1, one more before each later attempt), and
\* anywhere else the sleeps are one fewer than the invocations made, so
\* none follows the last attempt.
C6_BackoffSequence ==
    /\ \A j \in 1..Len(sleeps) : sleeps[j] = retry_delay * (2 ^ (j - 1))
    /\ Len(sleeps) = IF pc = "download" THEN Len(downloads)
                     ELSE IF downloads = <<>> THEN 0
                     ELSE Len(downloads) - 1

\* C6: four attempts with retry_delay = 2 have ended in the exhaustion error
C6_Witness ==
    /\ pc = "raised"
    /\ retry_delay = 2
    /\ Len(downloads) = 4
    /\ sleeps = <<2, 4, 8>>

\* C7: a download invocation that raises leaves the retry set, the
\* validation results and the disk checks as they were, counts as one
\* attempt and hands control back to the loop test without raising; until
\* the next invocation the call is at the loop test, about to download
\* again, or at its end, no stability wait has been made for the attempt,
\* and every invocation so far was counted against max_retries.
C7_TransportExceptionIsAFailedAttempt ==
    /\ [][(pc = "download" /\ last_attempt' = "exception") =>
            /\ pc' = "loop"
            /\ error' = "none"
            /\ retry_count' = retry_count + 1
            /\ UNCHANGED <<files_to_download, last_pass, validate_calls,
                           remove_calls, stability_calls, sleeps>>]_vars
    /\ [](last_attempt = "exception" =>
            /\ pc \in {"loop", "download", "final", "returned", "raised"}
            /\ files_to_download # <<>>
            /\ stability_calls = {}
            /\ retry_count = Len(downloads)
            /\ retry_count <= max_retries
            /\ pc \in {"final", "returned", "raised"} => retry_count = max_retries
            /\ pc = "raised" => error = "FileNotFoundError"
            /\ pc = "returned" => skip_validation)

\* C7: a transport exception on the first attempt, with a second attempt
\* about to be invoked
C7_Witness ==
    /\ last_attempt = "exception"
    /\ pc = "download"
    /\ retry_count = 1
    /\ Len(sleeps) = 1

\* the remote file name behind a role path
RoleName(path) == Basename(DataLinks(remote_granule)[path])

\* the descriptor's three file names carry the three tokens, one each
ThreeTokenDescriptor ==
    /\ Len(DataLinks(remote_granule)) = 3
    /\ {Basename(DataLinks(remote_granule)[i]) : i \in 1..3}
          = {NameRFL, NameMASK, NameRFLUNCERT}

\* C8 (the claim as stated): for a descriptor whose three file names carry
\* _RFL_, _MASK_ and _RFLUNCERT_, whenever classification is reached the
\* _RFL_ file is the reflectance, the _MASK_ file the mask and the
\* _RFLUNCERT_ file the uncertainty; the uncertainty file is never the
\* reflectance.
C8_RolesFollowTokens ==
    (pc = "initial" /\ ThreeTokenDescriptor) =>
        /\ RoleName(reflectance_filename) = NameRFL
        /\ RoleName(mask_filename) = NameMASK
        /\ RoleName(uncertainty_filename) = NameRFLUNCERT

\* the file names of the descriptor's data links
FileNames ==
    [i \in 1..Len(DataLinks(remote_granule)) |->
        Basename(DataLinks(remote_granule)[i])]

\* C9 (the claim as stated): whenever classification is reached, for every
\* download directory and granule id, the roles are those the file names
\* alone give, every data link has exactly one role, and the three role
\* paths are pairwise distinct.
C9_ClassifiedByFileNameOnly ==
    pc = "initial" =>
        /\ reflectance_filename =
              PathIndex(FileNames, IdentifyFiles(FileNames).reflectance)
        /\ mask_filename = PathIndex(FileNames, IdentifyFiles(FileNames).mask)
        /\ uncertainty_filename =
              PathIndex(FileNames, IdentifyFiles(FileNames).uncertainty)
        /\ \A i \in 1..Len(DataLinks(remote_granule)) :
              Cardinality({k \in 1..3 : roles[k] = i}) = 1
        /\ Cardinality(Range(roles)) = 3

CheckOrder == <<"exists", "size", "open", "structure", "integrity">>

\* C10: the checks run in the fixed order exists, size, open, structure
\* and stop at the first that fails: a missing path is FileNotFound after
\* the existence check alone, an empty file EmptyFile after the size check,
\* a failed open ReadError or Corrupted, a container with no dimension and
\* no variable Corrupted, anything else Valid (unless the optional integrity
\* check fails it as Corrupted); every call ends in one of the five outcomes.
C10_FirstFailingCheckDecides ==
    /\ v.checks = SubSeq(CheckOrder, 1, Len(v.checks))
    /\ v.outcome # "none" => v.pc = "done"
    /\ v.pc = "done" =>
          /\ v.outcome \in ValidationOutcomes
          /\ IF ~v.file.exists
             THEN v.outcome = "FileNotFound" /\ Len(v.checks) = 1
             ELSE IF v.file.size = 0
             THEN v.outcome = "EmptyFile" /\ Len(v.checks) = 2
             ELSE IF v.file.open # "ok"
             THEN v.outcome \in {"ReadError", "Corrupted"} /\ Len(v.checks) = 3
             ELSE IF v.file.dimensions = 0 /\ v.file.variables = 0
             THEN v.outcome = "Corrupted" /\ Len(v.checks) = 4
             ELSE IF ~v.check_integrity
             THEN v.outcome = "Valid" /\ Len(v.checks) = 4
             ELSE v.outcome \in {"Valid", "Corrupted"} /\ Len(v.checks) = 5

\* C10: a zero-byte file whose open would raise has been reported EmptyFile
C10_Witness ==
    /\ v.pc = "done"
    /\ v.file.exists
    /\ v.file.size = 0
    /\ v.file.open = "RuntimeError"
    /\ v.outcome = "EmptyFile"

\* a failed open of the format layer: the library reports the content as
\* no well-formed container (RuntimeError, or an error whose text carries
\* the HDF/NetCDF pattern of lines 107-108)
FormatLayerFailure(f) ==
    /\ f.open # "ok"
    /\ \/ f.open = "RuntimeError"
       \/ f.message \in {"errno -101", "hdf error"}

\* a failed open of the I/O layer: an OSError for a permission or a generic
\* I/O problem
IOLayerFailure(f) ==
    /\ f.open = "OSError"
    /\ f.message \in {"plain", "permission"}

\* C11 (the claim as stated): for a file that exists and is not empty, an
\* open that fails in the I/O layer (permission, generic I/O) is reported
\* as ReadError, and an open that fails in the format layer (including HDF
\* errors such as errno -101) is reported as Corrupted.
C11_LayerDecidesKind ==
    (v.pc = "done" /\ v.file.exists /\ v.file.size > 0) =>
        /\ IOLayerFailure(v.file) => v.outcome = "ReadError"
        /\ FormatLayerFailure(v.file) => v.outcome = "Corrupted"

\* C12: for a file that exists and is not empty and whose open fails, the
\* outcome is ReadError for an OSError and Corrupted for any other class,
\* whatever the text of the exception; the text only sets the hint of the
\* message, and only for an OSError.
C12_PatternIsAdvisory ==
    (v.pc = "done" /\ v.file.exists /\ v.file.size > 0 /\ v.file.open # "ok") =>
        /\ v.outcome = IF v.file.open = "OSError" THEN "ReadError" ELSE "Corrupted"
        /\ \A m \in MessageKinds :
              Validate([v.file EXCEPT !.message = m], v.check_integrity).outcome
                 = v.outcome
        /\ v.hint = (/\ v.file.open = "OSError"
                     /\ v.file.message \in {"errno -101", "hdf error"})

\* C12: an OSError whose text carries errno -101 has been reported
C12_Witness ==
    /\ v.pc = "done"
    /\ v.file.open = "OSError"
    /\ v.file.message = "errno -101"
    /\ v.outcome = "ReadError"
    /\ v.hint

\* C13: at every step of a call the file on disk is the file as given; at
\* the end of the call, normal or by any error, the container handle is
\* closed if it was opened and was never opened otherwise; and the second
\* of two consecutive calls on the file ends with the outcome of the first.
C13_ReadOnlyIdempotent ==
    /\ v.file = v.given
    /\ v.pc = "done" =>
          /\ v.handle = IF v.file.exists /\ v.file.size > 0 /\ v.file.open = "ok"
                        THEN "closed" ELSE "none"
          /\ v.previous # "none" => v.outcome = v.previous
    /\ v.handle = "open" => v.pc \in {"structure", "integrity"}

\* C13: a second call on a container that opens has ended, like the first,
\* in Corrupted from the integrity check
C13_Witness ==
    /\ v.pc = "done"
    /\ v.previous = "Corrupted"
    /\ v.check_integrity
    /\ v.file.open = "ok"
    /\ v.handle = "closed"
    /\ v.outcome = "Corrupted"

\* the last n stat() samples taken each gave a size, and the same one
LastSamplesEqual(n) ==
    /\ w.taken >= n
    /\ \A k \in (w.taken - n + 1)..w.taken :
          /\ w.stats[k] # "raises"
          /\ w.stats[k] = w.stats[w.taken]

\* C14 (the claim as stated): the call returns true as soon as the size is
\* unchanged across 2 consecutive samples, so for a file of constant size
\* it returns true after the second sample whenever max_checks >= 2.
C14_TrueAtTwoEqualSamples ==
    (w.exists /\ w.check_size /\ LastSamplesEqual(2)) =>
        /\ w.pc = "done"
        /\ w.result = "true"

\* C14 (amended): the call returns true as soon as the size is unchanged
\* across 3 consecutive samples (two consecutive unchanged readings),
\* without a further sample or sleep, and only then; so for a file of
\* constant size it returns true after the third sample whenever
\* max_checks >= 3, and false when max_checks < 3.
C14_TrueAtThreeEqualSamples ==
    /\ (w.exists /\ w.check_size /\ LastSamplesEqual(3)) =>
          /\ w.pc = "done"
          /\ w.result = "true"
    /\ w.result = "true" =>
          /\ w.exists /\ w.check_size
          /\ LastSamplesEqual(3)
          /\ w.taken <= w.max_checks
          /\ w.sleeps = w.taken - 1
    /\ (/\ w.pc = "done" /\ w.exists /\ w.check_size
        /\ \A k \in 1..MaxChecks : w.stats[k] = "size a") =>
          IF w.max_checks >= 3
          THEN w.result = "true" /\ w.taken = 3
          ELSE w.result = "false" /\ w.taken = w.max_checks

\* C14: a file of constant size was declared stable at the third sample,
\* max_checks allowing more
C14_Witness ==
    /\ w.pc = "done"
    /\ w.result = "true"
    /\ w.taken = 3
    /\ w.max_checks > 3
    /\ \A k \in 1..MaxChecks : w.stats[k] = "size a"

\* C15: a call on a path that does not exist returns true with no unlink
\* and no sleep, and the path still does not exist.
C15_AbsentPathNoEffect ==
    (u.pc = "done" /\ ~u.given) =>
        /\ u.result
        /\ u.unlinks = 0
        /\ u.sleeps = 0
        /\ ~u.present

\* C15: a call with max_attempts = 3 on a path that does not exist has
\* returned
C15_Witness ==
    /\ u.pc = "done"
    /\ ~u.given
    /\ u.max_attempts = 3
    /\ u.result

\* C16 (the claim as stated): for every sequence of unlink outcomes, when
\* the call returns false the path exists at the return, and when the path
\* no longer exists the call returns true.
C16_FalseOnlyIfStillThere ==
    u.pc = "done" =>
        /\ ~u.result => u.present
        /\ ~u.present => u.result

\* the role paths whose file does not exist
AbsentRolePaths == {roles[k] : k \in {j \in 1..3 : ~fs[roles[j]].exists}}

\* C17: with skip_validation = true no validate call and no removal is ever
\* made; the retry set that the initial check builds is exactly the set of
\* the role paths that do not exist; and no step of the call changes a file
\* that exists.
C17_SkipValidationTouchesNoFile ==
    /\ [](skip_validation =>
            /\ validate_calls = {}
            /\ remove_calls = NoRemoveCalls
            /\ last_pass = <<>>)
    /\ [][(skip_validation /\ pc = "initial") =>
            /\ pc' = "loop"
            /\ Range(files_to_download') = AbsentRolePaths
            /\ fs' = fs]_vars
    /\ [][skip_validation =>
            \A i \in LinkSlots : fs[i].exists => fs'[i] = fs[i]]_vars

\* C17: a call with skip_validation = true has returned after one download,
\* the invalid reflectance file it found still in place
C17_Witness ==
    /\ skip_validation
    /\ pc = "returned"
    /\ Len(downloads) = 1
    /\ fs[reflectance_filename] = CorruptFile
    /\ validate_calls = {}

\* C18: with skip_validation = true FileNotFoundError is never raised (the
\* call raises only from Resolving or Classifying); the first download
\* invocation that does not raise ends the loop; the loop ends only when
\* nothing was missing, a download did not raise, or max_retries attempts
\* were used; and from the end of the loop the call returns the three
\* role paths, whatever is on disk.
C18_SkipValidationNeverExhausts ==
    /\ [](skip_validation =>
            /\ error \in {"none", "ValueError", "IndexError"}
            /\ pc = "raised" => downloads = <<>>
            /\ pc \in {"final", "returned"} =>
                  \/ downloads = <<>> /\ files_to_download = <<>>
                  \/ last_attempt = "validated"
                  \/ retry_count = max_retries)
    /\ [][(skip_validation /\ pc = "revalidate") =>
            /\ pc' = "final"
            /\ files_to_download' = <<>>]_vars
    /\ [][(skip_validation /\ pc = "final") =>
            /\ pc' = "returned"
            /\ UNCHANGED <<roles, fs, downloads>>]_vars

\* C18: with skip_validation = true the call has returned after max_retries
\* download invocations that raised, the mask file missing
C18_Witness ==
    /\ skip_validation
    /\ pc = "returned"
    /\ max_retries >= 2
    /\ retry_count = max_retries
    /\ last_attempt = "exception"
    /\ ~fs[mask_filename].exists

\* C19: the search is made exactly when no descriptor is given and both
\* orbit and scene are; a call with no descriptor and no orbit or no scene
\* raises ValueError without a search; a call whose search resolves to no
\* descriptor raises ValueError; a descriptor that is given is used as is.
C19_ResolveOrValueError ==
    /\ [][pc = "start" =>
            search_calls' =
               IF granule_arg = 0 /\ orbit # 0 /\ scene # 0
               THEN search_calls + 1 ELSE search_calls]_vars
    /\ []((pc # "start" /\ granule_arg = 0 /\ (orbit = 0 \/ scene = 0)) =>
            /\ pc = "raised"
            /\ error = "ValueError"
            /\ search_calls = 0)
    /\ []((pc # "start" /\ remote_granule = 0) =>
            /\ pc = "raised"
            /\ error = "ValueError")
    /\ [](granule_arg # 0 =>
            /\ search_calls = 0
            /\ remote_granule = granule_arg)

\* C19: the search by orbit and scene was made and resolved to no descriptor
C19_Witness ==
    /\ pc = "raised"
    /\ error = "ValueError"
    /\ granule_arg = 0
    /\ search_calls = 1
    /\ remote_granule = 0

\* the descriptor's file names do not provide all three roles
LacksARole ==
    \/ IdentifyFiles(FileNames).reflectance = NoFile
    \/ IdentifyFiles(FileNames).mask = NoFile
    \/ IdentifyFiles(FileNames).uncertainty = NoFile

\* C20 (the claim as stated): for every descriptor whose data links do not
\* provide all three roles, with fewer than three or no link included, the
\* call ends in ValueError before the initial check.
C20_MissingRoleIsValueError ==
    (pc \notin {"start", "classify"} /\ remote_granule # 0 /\ LacksARole) =>
        /\ pc = "raised"
        /\ error = "ValueError"

\* C21 (the claim as stated): the exhaustion error carries, for every
\* offending path, the path and its last known validation outcome.
C21_MessageCarriesOutcomes ==
    (pc = "raised" /\ error = "FileNotFoundError") =>
        /\ "outcomes" \in DOMAIN error_message
        /\ \A k \in 1..Len(error_message.files) :
              error_message.outcomes[k] \in ValidationOutcomes \ {"Valid"}

\* C21 (amended): the exhaustion error carries max_retries and the list of
\* the paths in the retry set, which is not empty, and nothing else: no
\* validation outcome is kept per path.  No message exists before it.
C21_MessageCarriesPathsOnly ==
    IF pc = "raised" /\ error = "FileNotFoundError"
    THEN /\ DOMAIN error_message = {"max_retries", "files"}
         /\ error_message.max_retries = max_retries
         /\ error_message.files = files_to_download
         /\ error_message.files # <<>>
    ELSE error_message = NoMessage

\* C21: the exhaustion error has been raised naming two paths
C21_Witness ==
    /\ pc = "raised"
    /\ error = "FileNotFoundError"
    /\ Len(error_message.files) = 2

\* the role paths whose file does not validate
InvalidRolePaths == {roles[k] : k \in {j \in 1..3 : OnDisk(roles[j]) # "Valid"}}

\* C22: no validation error is ever the error of the call: a call that
\* has got past Classifying ends only by returning or in FileNotFoundError,
\* and each validation pass (InitialCheck, Revalidating) goes on to the
\* loop test or the terminal test with exactly the paths whose file failed
\* validation, whatever the kind of failure, in the retry set.
C22_ValidationErrorsAreCaught ==
    /\ [](/\ error \notin ValidationOutcomes
          /\ (pc = "raised" /\ roles # <<0, 0, 0>>) =>
                error = "FileNotFoundError")
    /\ [][(pc \in {"initial", "revalidate"} /\ ~skip_validation) =>
            /\ pc' \in {"loop", "final"}
            /\ error' = "none"
            /\ Range(files_to_download') = InvalidRolePaths]_vars

\* C22: the initial check has met an empty file, a file that cannot be
\* read and a missing file, and has put the three in the retry set
C22_Witness ==
    /\ pc = "loop"
    /\ downloads = <<>>
    /\ fs[reflectance_filename] = EmptyFile
    /\ fs[mask_filename] = UnreadableFile
    /\ fs[uncertainty_filename] = MissingFile
    /\ Len(files_to_download) = 3
    /\ error = "none"

AllLinks == 1..Len(DataLinks(remote_granule))

\* C28 (the claim as stated): each download invocation requests exactly
\* the links of the files in the retry set.
C28_RequestsRetrySetOnly ==
    [][pc = "download" =>
         downloads'[Len(downloads')].urls = Range(files_to_download)]_vars

\* C28 (amended): each download invocation requests all the data links of
\* the descriptor, those of files that validated included.
C28_RequestsAllLinks ==
    \A j \in 1..Len(downloads) : downloads[j].urls = AllLinks

\* C28: a download was invoked with only the reflectance file in the retry
\* set
C28_Witness ==
    /\ pc = "stabilize"
    /\ ~skip_validation
    /\ files_to_download = <<reflectance_filename>>
    /\ downloads[1].urls = {1, 2, 3}

\* C29 (the claim as stated): Revalidating validates only files that were
\* in the retry set at the start of the attempt.
C29_RevalidatesRetrySetOnly ==
    [][(pc = "revalidate" /\ ~skip_validation) =>
         {roles[k] : k \in DOMAIN last_pass'} \subseteq Range(files_to_download)]_vars

\* C29 (amended): Revalidating validates all three role files, those that
\* passed the previous validation pass included; a file that passed the
\* previous pass validates again, is not changed or removed, and is not put
\* in the retry set.
C29_RevalidatesAllKeepsValid ==
    [][(pc = "revalidate" /\ ~skip_validation) =>
         /\ DOMAIN last_pass' = 1..3
         /\ \A k \in 1..3 :
               last_pass[k] =>
                  /\ last_pass'[k]
                  /\ fs'[roles[k]] = fs[roles[k]]
                  /\ remove_calls'[roles[k]] = remove_calls[roles[k]]
                  /\ roles[k] \notin Range(files_to_download')]_vars

\* C29: a revalidation after which the mask file, valid since the initial
\* check, is still valid while the reflectance file failed again
C29_Witness ==
    /\ ~skip_validation
    /\ last_attempt = "invalid"
    /\ Len(downloads) = 1
    /\ last_pass = <<FALSE, TRUE, TRUE>>
    /\ remove_calls[mask_filename] = 0

\* C30: a Revalidating step leaves in the retry set exactly the paths
\* whose file failed validation in the step; a file that validated is not
\* in the set and is unchanged; safe_file_remove has been called on every
\* file that failed and existed.
C30_RetrySetIsFailedSet ==
    [][(pc = "revalidate" /\ ~skip_validation) =>
         /\ Range(files_to_download') = InvalidRolePaths
         /\ \A k \in 1..3 :
               IF OnDisk(roles[k]) = "Valid"
               THEN /\ last_pass'[k]
                    /\ fs'[roles[k]] = fs[roles[k]]
               ELSE /\ ~last_pass'[k]
                    /\ fs[roles[k]].exists =>
                          \/ remove_calls'[roles[k]] > remove_calls[roles[k]]
                          \/ remove_calls[roles[k]] = RemoveCallsCap]_vars

\* C30: a revalidation has removed the reflectance file a second time and
\* left it alone in the retry set
C30_Witness ==
    /\ ~skip_validation
    /\ last_attempt = "invalid"
    /\ files_to_download = <<reflectance_filename>>
    /\ remove_calls[reflectance_filename] = 2
    /\ ~fs[reflectance_filename].exists

C25_UnavailableDateIsSkipped ==
    /\ ts.error \notin {"TypeError", "EMITNotAvailable"}
    /\ \A date \in 1..(ts.date - 1) :
          date \notin ts.initial =>
             /\ date \in ts.retrieved
             /\ date \notin ts.available =>
                   date \notin Range(ts.filenames)

\* C26: every caller decides that a file it has validated is valid exactly
\* when validate_NetCDF_file raised nothing.
C26_ValidIffNoException ==
    (vc.pc = "decided" /\ vc.decision # "not validated") =>
        (vc.decision = "valid" <=> Validate(vc.file, FALSE).outcome = "Valid")

\* C23: nothing excludes one call from acting between the other call's
\* validation of a file and its return: a call returns only after all
\* three role files validated in its last pass, and a file it names is
\* missing or invalid at its return only when the other call removed the
\* file after that validation.
C23_ReturnedInvalidOnlyByOtherCall ==
    \A i \in Calls :
       cc.calls # <<>> /\ cc.calls[i].pc = "returned" =>
          /\ cc.calls[i].validated = LinkSlots
          /\ cc.calls[i].invalid_at_return \subseteq cc.calls[i].disturbed

\* C23: the first call has returned a granule whose reflectance file the
\* second call removed after the first call had validated it
C23_Witness ==
    /\ cc.calls # <<>>
    /\ cc.calls[1].pc = "returned"
    /\ 1 \in cc.calls[1].invalid_at_return
    /\ 1 \in cc.calls[1].disturbed
    /\ ~cc.fs[1].exists

\* C31: the initial check is made before any download; in it
\* safe_file_remove is called on every cached file that exists and fails
\* validation, and the file is put in the retry set whether or not the
\* removal left it in place; with a retry set that is not empty and
\* max_retries > 0 the next step is the first download.
C31_InitialCheckRemovesThenQueues ==
    /\ [][(pc = "initial" /\ ~skip_validation) =>
            /\ downloads = <<>>
            /\ pc' = "loop"
            /\ \A k \in 1..3 :
                  (fs[roles[k]].exists /\ OnDisk(roles[k]) # "Valid") =>
                     /\ remove_calls'[roles[k]] > remove_calls[roles[k]]
                     /\ roles[k] \in Range(files_to_download')]_vars
    /\ [][(pc = "loop" /\ downloads = <<>> /\ files_to_download # <<>>
             /\ max_retries > 0) => pc' = "download"]_vars
    /\ [][(pc = "download" /\ downloads = <<>>) => Len(downloads') = 1]_vars

\* C31: the removal of the corrupt reflectance file failed, the file is in
\* the retry set and the first download has been invoked
C31_Witness ==
    /\ ~skip_validation
    /\ Len(downloads) = 1
    /\ last_attempt = "exception"
    /\ remove_calls[reflectance_filename] = 1
    /\ fs[reflectance_filename] = CorruptFile
    /\ files_to_download = <<reflectance_filename>>

\* the role paths whose file exists
PresentRolePaths == {roles[k] : k \in {j \in 1..3 : fs[roles[j]].exists}}

\* C32: a download that did not raise is followed by the stability waits,
\* which call no validation; Revalidating starts only after
\* wait_for_file_stability has been called on exactly the role files that
\* exist, in an attempt whose download did not raise.
C32_StabilityWaitBeforeValidation ==
    /\ [](pc = "revalidate" =>
            /\ last_attempt = "downloaded"
            /\ stability_calls = PresentRolePaths)
    /\ [][pc = "download" =>
            IF last_attempt' = "downloaded"
            THEN pc' = "stabilize" /\ validate_calls' = validate_calls
            ELSE pc' = "loop"]_vars
    /\ [][pc = "stabilize" =>
            /\ pc' = "revalidate"
            /\ validate_calls' = validate_calls
            /\ last_pass' = last_pass
            /\ fs' = fs]_vars

\* C32: the stability wait has been made on the two files that exist, one
\* of which validated in the initial check, and the revalidation is about
\* to start
C32_Witness ==
    /\ pc = "revalidate"
    /\ ~skip_validation
    /\ last_pass = <<FALSE, TRUE, FALSE>>
    /\ stability_calls = {reflectance_filename, mask_filename}
    /\ ~fs[uncertainty_filename].exists

\* C33: the first download invocation of a call has a thread-count hint of
\* 8 and every later one a hint of 1.
C33_EightThreadsThenOne ==
    \A j \in 1..Len(downloads) :
       downloads[j].threads = IF j = 1 THEN 8 ELSE 1

\* C33: the third download of a call has been invoked, after two failed
\* attempts and two backoff sleeps, with a hint of 1
C33_Witness ==
    /\ ~skip_validation
    /\ download_directory = 1
    /\ Len(downloads) = 3
    /\ last_attempt = "downloaded"
    /\ Len(sleeps) = 2
    /\ downloads[3].threads = 1

\* C34: a call makes at most max_retries download invocations and ends, by
\* returning or in the exhaustion error; with max_retries = 0 it makes no
\* download and goes from the initial check to the terminal decision.
C34_BoundedDownloadsThenEnds ==
    /\ [](Len(downloads) <= max_retries)
    /\ <>ended
    /\ [](pc = "raised" => error = "FileNotFoundError")
    /\ [][(pc = "loop" /\ max_retries = 0) => pc' = "final"]_vars

\* C34: the call has ended in the exhaustion error after max_retries
\* downloads, with max_retries at least 2
C34_Witness ==
    /\ pc = "raised"
    /\ error = "FileNotFoundError"
    /\ max_retries >= 2
    /\ Len(downloads) = max_retries

\* C35: Revalidating does not depend on what wait_for_file_stability
\* returned: whatever the results of the waits, it validates each of the
\* three role files, a role passes exactly when its file on disk is valid,
\* and the retry set is the set of the paths that failed; the wait is made
\* on no path that does not exist, and such a path is validated (and fails)
\* like the others.
C35_WaitResultUnused ==
    /\ [](pc = "revalidate" => stability_calls \cap AbsentRolePaths = {})
    /\ [][(pc = "revalidate" /\ ~skip_validation) =>
            /\ Len(last_pass') = 3
            /\ \A k \in 1..3 :
                  last_pass'[k] = (OnDisk(roles[k]) = "Valid")
            /\ \A p \in AbsentRolePaths : p \in Range(files_to_download')
            /\ Range(files_to_download') = InvalidRolePaths
            /\ pc' = IF InvalidRolePaths = {} THEN "final" ELSE "loop"]_vars

\* C35: the wait on the downloaded reflectance file returned False, the
\* file validated in the revalidation and the call has returned
C35_Witness ==
    /\ pc = "returned"
    /\ call = 1
    /\ ~skip_validation
    /\ Len(downloads) = 1
    /\ last_attempt = "validated"
    /\ ~stability_results[reflectance_filename]
    /\ stability_results[mask_filename]

\* C36: when the exhaustion error is raised and no safe_file_remove call
\* of the call has failed, none of the paths named in the error exists.
\* Stated for the calls that had no file to remove, where no removal can
\* have failed.
C36_ExhaustionLeavesNoNamedFile ==
    (/\ pc = "raised"
     /\ error = "FileNotFoundError"
     /\ remove_calls = NoRemoveCalls) =>
        \A p \in Range(error_message.files) : ~fs[p].exists
====
